---- MODULE Spec2Model ----
(***************************************************************************)
(* Request lifecycle of the Claude provider adapter                        *)
(* (src/lib/askd/adapters/claude.py) together with the protocol codec it   *)
(* uses (src/lib/ccb_protocol.py).                                         *)
(*                                                                         *)
(* Time is counted in units of 0.5 s (the polling tick of the wait loop)   *)
(* and is measured from started_ms of the running handle_task call, so     *)
(* started_ms = 0 and _now_ms() - started_ms = now.                        *)
(*                                                                         *)
(* A text is the sequence of its lines (str.splitlines()); every text the  *)
(* log reader delivers is non-empty and has no trailing newline, so that   *)
(* "\n".join(chunks).splitlines() is the concatenation of the chunks.      *)
(* Lines are in canonical form (no surrounding white space), except the    *)
(* padded text line, which ends in white space.                            *)
(*                                                                         *)
(* The other components have their own specifications over their own       *)
(* variables: the codec as a pure function (CodecSpec), make_req_id        *)
(* (ReqIdSpec), the OpenCode log reader of src/lib/opencode_comm.py        *)
(* (OpenCodeSpec, CancelSpec, PollSpec), the binding refresh, the session  *)
(* file and the registry mutex of src/lib/laskd_registry.py and            *)
(* src/lib/laskd_session.py (RegistrySpec, BindingSpec, LockSpec), the     *)
(* project id of src/lib/project_id.py (NormSpec, ProjectSpec) and the     *)
(* SMTP sender of src/lib/mail/sender.py (MailSpec).                       *)
(***************************************************************************)
EXTENDS Integers, Sequences, FiniteSets, TLC

\* ------------------------------------------------------------------ bounds
MaxTimeout == 4       \* largest request timeout, in ticks
MaxNow == 4           \* the clock stops here unless a deadline is still ahead
MaxSetupDelay == 0    \* ticks that may pass before the wait loop is entered
MaxEvents == 3        \* log events delivered to one request
FewEvents == 1        \* the same, in the runs of QueueSpec and FairSpec
MaxBatch == 2         \* events in one wait_for_events batch
MaxLogSize == 3       \* size of the rebound log, in MiB
MaxLen == 4           \* lines of a text given to the codec
MaxMsgLen == 1        \* lines of a message given to wrap_codex_prompt
MaxCalls == 3         \* calls of make_req_id
MaxClock == 1         \* the wall clock of make_req_id, in ms
MaxMsgs == 2          \* assistant messages of one OpenCode session
MaxWait == 3          \* timeout of wait_for_message, in poll intervals
MaxOcNow == 2         \* poll intervals that may pass between two reader calls
MaxUpdated == 2       \* largest time.updated of an OpenCode session
MaxMtime == 1         \* largest mtime of a Claude log file
MaxBindOps == 3       \* binding updates of one session file
MaxGens == 2          \* registry entries created for one work_dir
MaxLkNow == 2         \* the clock of the registry, in refresh intervals
MaxDepth == 10        \* depth of the directory given to compute_ccb_project_id
MaxParts == 5         \* components of a string given to normalize_work_dir
MaxSends == 3         \* calls of send_reply
MaxEvictNow == 6      \* the clock of the registry in the runs of EvictSpec
MaxPaneCalls == 2     \* calls of ensure_pane
MaxXferNow == 2       \* the clock of the auto-transfer, in hours
MaxEmails == 2        \* emails handed to the message handler
MaxPolls == 3         \* passes of the poll loop
MaxDaemons == 3       \* processes that call MailDaemon.start

\* -------------------------------------------------------- program constants
WaitStepMax == 1          \* 0.5 s
AnchorGrace == 3          \* 1.5 s
AnchorCollectGrace == 4   \* 2.0 s
PaneCheckInterval == 4    \* CCB_LASKD_PANE_CHECK_INTERVAL default 2.0 s
TailBytes == 2            \* CCB_LASKD_REBIND_TAIL_BYTES default 2 MiB
ForceReadPolls == 2       \* OPENCODE_FORCE_READ_INTERVAL 1.0 s, poll interval 0.5 s
RefreshInterval == 1      \* CCB_LASKD_BIND_REFRESH_INTERVAL 60 s, the unit of the registry clock
BackoffCap == 10          \* bind_backoff_s is at most 600 s
EvictAfter == 5           \* 300 s, in refresh intervals
TtlHours == 1             \* 3600 s
MaxLevels == 10           \* max_levels of _find_ccb_config_root
MaxRetriesDefault == 3    \* max_retries of send_reply
RetryDelay == 2           \* retry_delay 2.0 s

None == -1                \* Python None for Optional[int] / Optional[float]

Min(a, b) == IF a <= b THEN a ELSE b
Max(a, b) == IF a >= b THEN a ELSE b

\* ------------------------------------------------------------------- tasks
Tasks == {"t1", "t2"}
NoTask == "none"

\* request ids as make_req_id produces them (dated form); R0 is a request of
\* an earlier turn.  No id of the model is a proper prefix of another one, so
\* the substring test of the anchor is an equality of ids.
ReqIdOf(t) == IF t = "t1" THEN "R1" ELSE "R2"
DatedIds == {"R0", "R1", "R2"}

\* a request id of the old form (32 hex digits, lower case)
HexIds == {"H1"}

\* ------------------------------------------------------------------- codec
TextLine == [k |-> "text", id |-> ""]
PaddedLine == [k |-> "text", id |-> "padded"]    \* TextLine and white space
BlankLine == [k |-> "blank", id |-> ""]
TagLine == [k |-> "tag", id |-> ""]              \* e.g. HARNESS_DONE
DoneLine(id) == [k |-> "done", id |-> id]        \* CCB_DONE: <id>
ReqLine(id) == [k |-> "req", id |-> id]          \* CCB_REQ_ID: <id>

\* _ANY_CCB_DONE_LINE_RE: a CCB_DONE line whose id has the dated form
IsAnyCcbDoneLine(l) == l.k = "done" /\ l.id \in DatedIds

\* done_line_re(req_id).match(line)
MatchesDoneLine(l, req_id) == l.k = "done" /\ l.id = req_id

IsTrailingNoiseLine_BlankOnly(l) == l.k = "blank"

IsTrailingNoiseLine(l) == l.k = "blank" \/ l.k = "tag"

RECURSIVE IsDoneText(_, _)
IsDoneText(lines, req_id) ==
  IF lines = <<>> THEN FALSE
  ELSE LET last == lines[Len(lines)] IN
       IF IsTrailingNoiseLine(last)
       THEN IsDoneText(SubSeq(lines, 1, Len(lines) - 1), req_id)
       ELSE MatchesDoneLine(last, req_id)

RECURSIVE PopTrailingNoise(_)
PopTrailingNoise(lines) ==
  IF lines # <<>> /\ IsTrailingNoiseLine(lines[Len(lines)])
  THEN PopTrailingNoise(SubSeq(lines, 1, Len(lines) - 1))
  ELSE lines

RECURSIVE TrimLeadingBlank(_)
TrimLeadingBlank(seg) ==
  IF seg # <<>> /\ seg[1].k = "blank" THEN TrimLeadingBlank(Tail(seg)) ELSE seg

RECURSIVE TrimTrailingBlank(_)
TrimTrailingBlank(seg) ==
  IF seg # <<>> /\ seg[Len(seg)].k = "blank"
  THEN TrimTrailingBlank(SubSeq(seg, 1, Len(seg) - 1)) ELSE seg

\* str.rstrip() of one line
RStripLine(l) == IF l = PaddedLine THEN TextLine ELSE l

\* "\n".join(lines).rstrip()
RStripText(lines) ==
  LET a == TrimTrailingBlank(lines)
  IN IF a = <<>> THEN <<>> ELSE [a EXCEPT ![Len(a)] = RStripLine(@)]

StripDoneText(lines, req_id) ==
  LET a == PopTrailingNoise(lines)
      b == IF a # <<>> /\ MatchesDoneLine(a[Len(a)], req_id)
           THEN SubSeq(a, 1, Len(a) - 1) ELSE a
  IN RStripText(PopTrailingNoise(b))

SetMax(S) == CHOOSE x \in S : \A y \in S : y <= x

NoTargetReply_Strip(lines, req_id, done_idxs) == StripDoneText(lines, req_id)

\* lines 120-126: no done line of the request was found
NoTargetReply(lines, req_id, done_idxs) ==
  IF done_idxs # {} THEN <<>> ELSE StripDoneText(lines, req_id)

PrevDoneIdx_Start(done_idxs, target_i) == 0

\* lines 131-136: the done line before the target, 0 for the start of text
PrevDoneIdx(done_idxs, target_i) ==
  LET before == {i \in done_idxs : i < target_i}
  IN IF before = {} THEN 0 ELSE SetMax(before)

ExtractReplyForReq(lines, req_id) ==
  IF lines = <<>> THEN <<>>
  ELSE
    LET done_idxs == {i \in 1..Len(lines) : IsAnyCcbDoneLine(lines[i])}
        target_idxs == {i \in done_idxs : MatchesDoneLine(lines[i], req_id)}
    IN IF target_idxs = {}
       THEN NoTargetReply(lines, req_id, done_idxs)
       ELSE LET target_i == SetMax(target_idxs)
                prev_done_i == PrevDoneIdx(done_idxs, target_i)
            IN RStripText(TrimTrailingBlank(TrimLeadingBlank(
                 SubSeq(lines, prev_done_i + 1, target_i - 1))))

InstrLine(x) == [k |-> "text", id |-> x]

\* (message or "").rstrip() between the blank lines of the prompt
MessageLines(message) ==
  IF RStripText(message) = <<>> THEN <<BlankLine>> ELSE RStripText(message)

WrapCodexPrompt_NoDoneLine(message, req_id) == <<ReqLine(req_id), BlankLine>> \o MessageLines(message) \o <<BlankLine, InstrLine("IMPORTANT:")>>

WrapCodexPrompt(message, req_id) ==
  <<ReqLine(req_id), BlankLine>> \o MessageLines(message)
  \o <<BlankLine,
       InstrLine("IMPORTANT:"),
       InstrLine("- Reply normally."),
       InstrLine("- Reply normally, in English."),
       InstrLine("- End your reply with this exact final line (verbatim, on its own line):"),
       DoneLine(req_id)>>

RECURSIVE JoinChunks(_)
JoinChunks(cs) == IF cs = <<>> THEN <<>> ELSE Head(cs) \o JoinChunks(Tail(cs))

\* ---------------------------------------------------------------- replies
ReplyNoSession == <<[k |-> "msg", id |-> "No active Claude session found for work_dir."]>>
ReplyNoPane == <<[k |-> "msg", id |-> "Session pane not available"]>>
ReplyNoBackend == <<[k |-> "msg", id |-> "Terminal backend not available"]>>
ReplyPaneDied == <<[k |-> "msg", id |-> "Claude pane died during request"]>>

NoResult == [exit_code |-> None]

ProviderResult(ec, reply, req_id, ds, dms, as, ams, fs) ==
  [exit_code |-> ec, reply |-> reply, req_id |-> req_id, done_seen |-> ds,
   done_ms |-> dms, anchor_seen |-> as, anchor_ms |-> ams,
   fallback_scan |-> fs]

EarlyResult_ExitZero(reply, req_id) == ProviderResult(0, reply, req_id, FALSE, None, FALSE, None, FALSE)

\* lines 499-505, 509-515, 520-526: the result of an early return
EarlyResult(reply, req_id) == ProviderResult(1, reply, req_id, FALSE, None, FALSE, None, FALSE)

\* --------------------------------------------------------------- terminal
NoBackend == "none"
Terminals == {"tmux", "wezterm", "iterm2"}

GetBackendForSession(terminal) ==
  IF terminal = "wezterm" THEN "WeztermBackend"
  ELSE IF terminal = "iterm2" THEN "Iterm2Backend"
  ELSE "TmuxBackend"

\* ensure_pane: <<ok, pane>>; the stored pane is p0, the pane found through
\* the title marker is p1
EnsurePane(backend, storedAlive, hasMarker, resolvedAlive) ==
  IF backend = NoBackend THEN <<FALSE, "none">>
  ELSE IF storedAlive THEN <<TRUE, "p0">>
  ELSE IF hasMarker /\ resolvedAlive THEN <<TRUE, "p1">>
  ELSE <<FALSE, "none">>

\* _tail_state_for_log
TailStateForLog(exists, size, tail_bytes) ==
  IF ~exists THEN [origin |-> "tail", offset |-> 0]
  ELSE [origin |-> "tail", offset |-> Max(0, size - Max(0, tail_bytes))]

\* log_reader.capture_state(): the end of the log when the request starts;
\* offset 0 stands for that position
CaptureState == [origin |-> "capture_state", offset |-> 0]

\* the request timeouts of the model: unbounded, zero, shorter than the
\* anchor grace, longer than the anchor-collect grace
TimeoutSet == {-1, 0, 2, MaxTimeout}

\* ------------------------------------------------------------- log events
AssistantTexts(me) ==
  { <<TextLine>>,
    <<TextLine, DoneLine(me), TagLine>>,
    <<DoneLine("R0")>> }
UserTexts(me) == { <<ReqLine(me), TextLine>>, <<ReqLine("R0")>> }
SystemTexts == { <<TextLine>> }

Events(me) ==
  {[role |-> "assistant", text |-> x] : x \in AssistantTexts(me)}
  \cup {[role |-> "user", text |-> x] : x \in UserTexts(me)}
  \cup {[role |-> "system", text |-> x] : x \in SystemTexts}

Batches(me, n) ==
  UNION {[1..k -> Events(me)] : k \in 0..Min(n, MaxBatch)}

HasAnchor(text, req_id) ==
  \E i \in 1..Len(text) : text[i].k = "req" /\ text[i].id = req_id

VARIABLES
  tstate,        \* task -> "new" | "queued" | "running" | "returned"
  queue,         \* the provider's FIFO of queued tasks
  submitted,     \* history: tasks in submission order
  cancelled,     \* task -> QueuedTask.cancelled
  cur,           \* the task handle_task is running for
  pc,            \* position of the worker inside handle_task
  timeout_s,     \* req.timeout_s of the running request
  now,           \* time.time(), relative to started_ms
  deadline,
  anchor_grace_deadline,
  anchor_collect_grace,
  last_pane_check,
  wait_step,
  pane_id,
  reader,        \* use_sessions_index of the current ClaudeLogReader
  state,         \* the reader cursor
  events,        \* the rest of the batch the for loop is iterating over
  delivered,     \* number of events delivered to the running request
  chunks,
  anchor_seen,
  anchor_ms,
  done_seen,
  done_ms,
  fallback_scan,
  rebounded,
  result,        \* the ProviderResult of the latest handle_task call
  wait_cancelled,\* history: task.cancelled when the wait of the task ended
  notified,      \* history: task -> number of notify_completion calls
  injected,      \* history: the tasks whose prompt was sent, in order
  budget,        \* the number of log events the reader has for one request
  dropped        \* history: 1 when the running request ignored an assistant event

VARIABLES
  c_ops,         \* codec: the operations applied to c_text so far
  c_req,         \* codec: the request id argument
  c_text,        \* codec: the text argument
  c_x,           \* codec: the reply text X that was wrapped into c_text
  c_done,        \* codec: the latest result of is_done_text
  c_reply,       \* codec: the latest result of extract_reply_for_req
  req_id_counter,\* ccb_protocol._req_id_counter
  mk_pc,         \* thread -> position inside make_req_id
  mk_tmp,        \* thread -> the counter value it has loaded
  mk_now,        \* thread -> datetime.now() of its call, in ms
  mk_call,       \* thread -> the number of its call, in call order
  mk_calls,      \* the number of calls of make_req_id so far
  mk_issued,     \* history: the request ids returned
  mk_clock,      \* the wall clock, in ms
  oc_sid,        \* storage: id of the latest OpenCode session
  oc_updated,    \* storage: time.updated of the latest session
  oc_msgs,       \* storage: the assistant messages of the latest session
  oc_now,        \* time.time(), in poll intervals
  oc_state,      \* the reader cursor
  oc_pc,         \* position inside _read_since
  oc_block,      \* argument block of the running _read_since
  oc_deadline,   \* local deadline of the running _read_since
  oc_last_forced,\* local last_forced_read of the running _read_since
  oc_session_id, \* local session_id of the running _read_since
  oc_ret,        \* the reply the latest _read_since returned
  oc_seen,       \* history: oc_ret is a reply and storage is unchanged since
  oc_det,        \* history: the latest detect_cancelled_since call
  reg_path,      \* binding: claude_session_path
  reg_sid,       \* binding: claude_session_id
  reg_logs,      \* log -> the file of that name under the projects root
  reg_last       \* history: the latest binding refresh

VARIABLES
  sess_file,     \* the binding fields of the persisted .claude-session file
  sess_data,     \* the same fields of session.data of the registered session
  bind_th,       \* thread -> its position and locals inside a binding update
  bind_ops,      \* the number of binding updates started
  bind_hist,     \* history: the latest binding applied and the one before it
  bind_last      \* history: the binding update that finished latest

VARIABLES
  lk_owner,      \* the thread that holds LaskdSessionRegistry._lock
  lk_entry,      \* _sessions[key] for one work_dir
  lk_pc,         \* thread -> its position inside a registry method
  lk_loc,        \* the locals of _check_one
  lk_now,        \* time.time(), in refresh intervals
  lk_gens,       \* the number of _SessionEntry objects created
  lk_step,       \* history: who took the latest step, its I/O, the lock
  lk_hit         \* history: invalidate or remove ran during the refresh

coreVars == <<tstate, queue, submitted, cancelled, cur, pc, timeout_s, now,
              deadline, anchor_grace_deadline, anchor_collect_grace,
              last_pane_check, wait_step, pane_id, reader, state, events,
              delivered, chunks, anchor_seen, anchor_ms, done_seen, done_ms,
              fallback_scan, rebounded, result, wait_cancelled, notified,
              injected, budget, dropped>>

codecVars == <<c_ops, c_req, c_text, c_x, c_done, c_reply>>
mkVars == <<req_id_counter, mk_pc, mk_tmp, mk_now, mk_call, mk_calls,
            mk_issued, mk_clock>>
ocVars == <<oc_sid, oc_updated, oc_msgs, oc_now, oc_state, oc_pc, oc_block,
            oc_deadline, oc_last_forced, oc_session_id, oc_ret, oc_seen,
            oc_det>>
regVars == <<reg_path, reg_sid, reg_logs, reg_last>>

VARIABLES
  pj_ccb,        \* the directories that contain a directory .ccb
  pj_legacy,     \* the directories that contain a directory .ccb_config
  pj_git,        \* the directories that contain .git
  pj_env,        \* the environment variable CCB_PROJECT_ROOT
  pj_res,        \* history: the latest call of compute_ccb_project_id
  nm_msys,       \* MSYSTEM is in the environment
  nm_in,         \* the string given to normalize_work_dir
  nm_once,       \* normalize_work_dir(nm_in)
  nm_twice       \* normalize_work_dir(nm_once)

VARIABLES
  ml_pc,         \* the position inside send_reply
  ml_attempt,    \* attempt of _retry_on_failure
  ml_delay,      \* delay of _retry_on_failure, in seconds
  ml_conn,       \* SmtpSender._connection is set
  ml_tries,      \* history: the calls of _send made by this send_reply
  ml_waits,      \* history: the sleeps of this send_reply, in seconds
  ml_ret,        \* what the latest send_reply returned
  ml_sends,      \* the number of calls of send_reply
  ml_sent        \* history: the number of replies handed to the server

\* one record for each of the remaining components
VARIABLES
  singleton,     \* get_session_registry: the module global and its callers
  pane,          \* ClaudeProjectSession.ensure_pane: the session and the panes
  xfer,          \* maybe_auto_transfer: the keyed set and its callers
  ask,           \* the mail message handler and the ask handler
  poller,        \* the IMAP poller and the mailbox
  daemon         \* MailDaemon.start/stop and the state and pid files

bindVars == <<sess_file, sess_data, bind_th, bind_ops, bind_hist, bind_last>>

\* the components modelled after the registry
lockVars == <<lk_owner, lk_entry, lk_pc, lk_loc, lk_now, lk_gens, lk_step, lk_hit>>
pjVars == <<pj_ccb, pj_legacy, pj_git, pj_env, pj_res, nm_msys, nm_in, nm_once, nm_twice>>
mailVars == <<ml_pc, ml_attempt, ml_delay, ml_conn, ml_tries, ml_waits, ml_ret, ml_sends, ml_sent>>
lastVars == <<singleton, pane, xfer, ask, poller, daemon>>
tailVars == <<pjVars, mailVars, lastVars>>
lateVars == <<bindVars, lockVars, tailVars>>

\* the variables of the components other than the Claude adapter
extVars == <<codecVars, mkVars, ocVars, regVars, lateVars>>
earlyVars == <<coreVars, codecVars, mkVars, ocVars, regVars>>

vars == <<coreVars, extVars>>

\* ------------------------------------- the other components, not running
Threads == {"th1", "th2"}
Logs == {"L1", "L2", "L3"}
NoLog == "none"
NoReply == "none"
NoId == "none"

\* the cursor capture_state returns when there is no session
NoSessionState == [session_id |-> NoId, session_updated |-> -1, assistant_count |-> 0, last_assistant_id |-> NoId, last_assistant_completed |-> None, last_assistant_has_done |-> FALSE]

NoDetect == [called |-> FALSE, req |-> NoId, ret |-> FALSE, fresh_abort |-> FALSE, own_abort |-> FALSE]

NoRefresh == [via |-> "none", replaced |-> FALSE, older |-> FALSE, sid_differs |-> FALSE]

CodecIdle ==
  /\ c_ops = {}
  /\ c_req = "R1"
  /\ c_text = <<>>
  /\ c_x = <<>>
  /\ c_done = FALSE
  /\ c_reply = <<>>

\* the module ccb_protocol when it has been imported
MkIdle ==
  /\ req_id_counter = 0
  /\ mk_pc = [t \in Threads |-> "idle"]
  /\ mk_tmp = [t \in Threads |-> 0]
  /\ mk_now = [t \in Threads |-> 0]
  /\ mk_call = [t \in Threads |-> 0]
  /\ mk_calls = 0
  /\ mk_issued = {}
  /\ mk_clock = 0

\* the locals of _read_since when no call is running
OcNoCall ==
  /\ oc_pc = "idle"
  /\ oc_block = FALSE
  /\ oc_deadline = 0
  /\ oc_last_forced = 0
  /\ oc_session_id = NoId

OcIdle ==
  /\ oc_sid = "sA"
  /\ oc_updated = 0
  /\ oc_msgs = <<>>
  /\ oc_now = 0
  /\ oc_state = NoSessionState
  /\ OcNoCall
  /\ oc_ret = NoReply
  /\ oc_seen = FALSE
  /\ oc_det = NoDetect

RegIdle ==
  /\ reg_path = NoLog
  /\ reg_sid = NoId
  /\ reg_logs = [l \in Logs |-> [exists |-> FALSE, mtime |-> 0, sid |-> NoId]]
  /\ reg_last = NoRefresh

\* ---- the session file and its binding updates, nothing running
BindThreads == {"monitor", "watcher", "root"}
Paths == {"p1", "p2"}
Ids == {"i1", "i2"}
Bindings == [path : Paths, id : Ids]
NoBinding == [path |-> NoLog, id |-> NoId]
FirstBinding == [path |-> "p1", id |-> "i1"]
FirstFile == [path |-> "p1", id |-> "i1", old_path |-> NoLog, old_id |-> NoId]
NoBindCall == [pc |-> "idle", arg |-> NoBinding, old |-> NoBinding, updated |-> FALSE, stamped |-> FALSE, payload |-> FirstFile, recs |-> 0, solo |-> FALSE, from |-> NoBinding]
NoBindOp == [done |-> FALSE, by |-> "none", from |-> NoBinding, to |-> NoBinding, recs |-> 0, solo |-> FALSE]

BindIdle ==
  /\ sess_file = FirstFile
  /\ sess_data = FirstFile
  /\ bind_th = [t \in BindThreads |-> NoBindCall]
  /\ bind_ops = 0
  /\ bind_hist = [cur |-> FirstBinding, prev |-> NoBinding]
  /\ bind_last = NoBindOp

\* ---- the session registry, nothing registered
LockThreads == {"monitor", "client"}
NoOwner == "none"
\* since is not a field of _SessionEntry: it records when valid became False
NoEntry == [gen |-> 0, valid |-> FALSE, session |-> FALSE, bind_backoff_s |-> 0, next_bind_refresh |-> 0, last_check |-> 0, since |-> 0]
NoCheck == [now |-> 0, file_changed |-> FALSE, backoff |-> 0, updated |-> FALSE, gen |-> 0]
NoStep == [by |-> "none", at |-> "idle", io |-> "none", locked |-> FALSE]

LockIdle ==
  /\ lk_owner = NoOwner
  /\ lk_entry = NoEntry
  /\ lk_pc = [t \in LockThreads |-> "idle"]
  /\ lk_loc = NoCheck
  /\ lk_now = 0
  /\ lk_gens = 0
  /\ lk_step = NoStep
  /\ lk_hit = FALSE

\* ---- project ids
NoDir == -1
EnvUnset == -1
EnvMissing == -2
NoRes == [dir |-> NoDir, id |-> <<>>]
NoStr == [sep |-> "/", parts |-> <<>>]

\* ---- the SMTP sender
NoSend == [called |-> FALSE, ok |-> FALSE]

\* ---- a component that a specification does not run: its variables hold one
\* placeholder, which no action of the running components reads or writes
Unused == "unused"

BindOff ==
  /\ sess_file = Unused
  /\ sess_data = Unused
  /\ bind_th = Unused
  /\ bind_ops = Unused
  /\ bind_hist = Unused
  /\ bind_last = Unused

LockOff ==
  /\ lk_owner = Unused
  /\ lk_entry = Unused
  /\ lk_pc = Unused
  /\ lk_loc = Unused
  /\ lk_now = Unused
  /\ lk_gens = Unused
  /\ lk_step = Unused
  /\ lk_hit = Unused

PjOff ==
  /\ pj_ccb = Unused
  /\ pj_legacy = Unused
  /\ pj_git = Unused
  /\ pj_env = Unused
  /\ pj_res = Unused
  /\ nm_msys = Unused
  /\ nm_in = Unused
  /\ nm_once = Unused
  /\ nm_twice = Unused

MailOff ==
  /\ ml_pc = Unused
  /\ ml_attempt = Unused
  /\ ml_delay = Unused
  /\ ml_conn = Unused
  /\ ml_tries = Unused
  /\ ml_waits = Unused
  /\ ml_ret = Unused
  /\ ml_sends = Unused
  /\ ml_sent = Unused

LastOff ==
  /\ singleton = Unused
  /\ pane = Unused
  /\ xfer = Unused
  /\ ask = Unused
  /\ poller = Unused
  /\ daemon = Unused

LateOff == BindOff /\ LockOff /\ PjOff /\ MailOff /\ LastOff

ExtIdle == CodecIdle /\ MkIdle /\ OcIdle /\ RegIdle /\ LateOff

queueVars == <<tstate, queue, submitted>>
timeVars == <<deadline, anchor_grace_deadline, anchor_collect_grace,
              last_pane_check, wait_step>>
readerVars == <<reader, state>>
scanVars == <<chunks, anchor_seen, anchor_ms, done_seen, done_ms>>
rebindVars == <<fallback_scan, rebounded>>
histVars == <<wait_cancelled, notified, injected, budget>>

\* the locals of handle_task / _wait_for_response before they are assigned
LocalsReset ==
  /\ timeout_s' = 0
  /\ deadline' = None
  /\ anchor_grace_deadline' = 0
  /\ anchor_collect_grace' = 0
  /\ last_pane_check' = 0
  /\ wait_step' = 0
  /\ pane_id' = "none"
  /\ reader' = "none"
  /\ state' = CaptureState
  /\ events' = <<>>
  /\ delivered' = 0
  /\ chunks' = <<>>
  /\ anchor_seen' = FALSE
  /\ anchor_ms' = None
  /\ done_seen' = FALSE
  /\ done_ms' = None
  /\ fallback_scan' = FALSE
  /\ rebounded' = FALSE
  /\ dropped' = 0

\* the Claude adapter before any request
InitCore(ts, b) ==
  /\ tstate = [t \in Tasks |-> IF t \in ts THEN "new" ELSE "absent"]
  /\ budget = b
  /\ queue = <<>>
  /\ submitted = <<>>
  /\ cancelled = [t \in Tasks |-> FALSE]
  /\ cur = NoTask
  /\ pc = "idle"
  /\ timeout_s = 0
  /\ now = 0
  /\ deadline = None
  /\ anchor_grace_deadline = 0
  /\ anchor_collect_grace = 0
  /\ last_pane_check = 0
  /\ wait_step = 0
  /\ pane_id = "none"
  /\ reader = "none"
  /\ state = CaptureState
  /\ events = <<>>
  /\ delivered = 0
  /\ chunks = <<>>
  /\ anchor_seen = FALSE
  /\ anchor_ms = None
  /\ done_seen = FALSE
  /\ done_ms = None
  /\ fallback_scan = FALSE
  /\ rebounded = FALSE
  /\ result = NoResult
  /\ wait_cancelled = [t \in Tasks |-> FALSE]
  /\ notified = [t \in Tasks |-> 0]
  /\ injected = <<>>
  /\ dropped = 0

InitWith(ts, b) == InitCore(ts, b) /\ ExtIdle

\* one request, with the full supply of log events
Init == InitWith({"t1"}, MaxEvents)

\* two requests of the provider
InitQueue == InitWith(Tasks, FewEvents)

\* one request, with a short supply of log events
InitFew == InitWith({"t1"}, FewEvents)

\* ------------------------------------------------- queue and cancellation
\* the client submits a request: it is appended to the provider's queue
Submit(t) ==
  /\ tstate[t] = "new"
  /\ tstate' = [tstate EXCEPT ![t] = "queued"]
  /\ queue' = Append(queue, t)
  /\ submitted' = Append(submitted, t)
  /\ UNCHANGED <<cancelled, cur, pc, timeout_s, now, timeVars, pane_id,
                 readerVars, events, delivered, scanVars, rebindVars, result,
                 histVars, dropped>>
  /\ UNCHANGED extVars

\* somebody sets QueuedTask.cancelled = True
Cancel(t) ==
  /\ tstate[t] \in {"queued", "running"}
  /\ ~cancelled[t]
  /\ cancelled' = [cancelled EXCEPT ![t] = TRUE]
  /\ UNCHANGED <<queueVars, cur, pc, timeout_s, now, timeVars, pane_id,
                 readerVars, events, delivered, scanVars, rebindVars, result,
                 histVars, dropped>>
  /\ UNCHANGED extVars

NextTask_Lifo(q) == q[Len(q)]

\* the provider's dispatcher takes the oldest queued task
NextTask(q) == Head(q)

RemoveTask(q, t) == SelectSeq(q, LAMBDA x : x # t)

\* the dispatcher of the provider calls handle_task(task) for the next task
\* once the previous call has returned; the request is immutable and its
\* timeout_s is first read by handle_task, so it is drawn here
Dispatch ==
  /\ pc = "idle"
  /\ queue # <<>>
  /\ LET t == NextTask(queue) IN
       /\ cur' = t
       /\ queue' = RemoveTask(queue, t)
       /\ tstate' = [tstate EXCEPT ![t] = "running"]
  /\ \E ts \in TimeoutSet : timeout_s' = ts
  /\ pc' = "start"
  /\ now' = 0
  /\ result' = NoResult
  /\ UNCHANGED <<submitted, cancelled, timeVars, pane_id, readerVars, events,
                 delivered, scanVars, rebindVars, histVars, dropped>>
  /\ UNCHANGED extVars

\* ------------------------------------------------------------ handle_task
\* handle_task returns `res` to the dispatcher
ReturnResult(res) ==
  /\ result' = res
  /\ tstate' = [tstate EXCEPT ![cur] = "returned"]
  /\ cur' = NoTask
  /\ pc' = "idle"
  /\ now' = 0
  /\ LocalsReset
  /\ UNCHANGED <<queue, submitted, cancelled>>

\* lines 490-526: load the session, ensure the pane, get the backend
HandleTaskStart ==
  /\ pc = "start"
  /\ \E hasSession, storedAlive, hasMarker, resolvedAlive \in BOOLEAN,
        terminal \in Terminals :
       LET backend == GetBackendForSession(terminal)
           ep == EnsurePane(backend, storedAlive, hasMarker, resolvedAlive)
       IN IF ~hasSession
          THEN /\ ReturnResult(EarlyResult(ReplyNoSession, ReqIdOf(cur)))
               /\ UNCHANGED histVars
          ELSE IF ~ep[1]
          THEN /\ ReturnResult(EarlyResult(ReplyNoPane, ReqIdOf(cur)))
               /\ UNCHANGED histVars
          ELSE IF backend = NoBackend
          THEN /\ ReturnResult(EarlyResult(ReplyNoBackend, ReqIdOf(cur)))
               /\ UNCHANGED histVars
          ELSE /\ pane_id' = ep[2]
               /\ pc' = "inject"
               /\ UNCHANGED <<queueVars, cancelled, cur, timeout_s, now,
                              timeVars, readerVars, events, delivered,
                              scanVars, rebindVars, result, histVars, dropped>>
  /\ UNCHANGED extVars

\* lines 528-542: deadline, log reader, cursor snapshot, send_text
Inject ==
  /\ pc = "inject"
  /\ deadline' = IF timeout_s < 0 THEN None ELSE now + timeout_s
  /\ reader' = "indexed"
  /\ state' = CaptureState
  /\ injected' = Append(injected, cur)
  /\ pc' = "wait_init"
  /\ UNCHANGED <<queueVars, cancelled, cur, timeout_s, now,
                 anchor_grace_deadline, anchor_collect_grace, last_pane_check,
                 wait_step, pane_id, events, delivered, scanVars, rebindVars,
                 result, wait_cancelled, notified, budget, dropped>>
  /\ UNCHANGED extVars

\* lines 597-612: the locals of _wait_for_response.  `deadline` is an absolute
\* wall-clock time in the program, so `if deadline` is `deadline is not None`
WaitInit ==
  /\ pc = "wait_init"
  /\ anchor_grace_deadline' =
       IF deadline # None THEN Min(deadline, now + AnchorGrace)
       ELSE now + AnchorGrace
  /\ anchor_collect_grace' =
       IF deadline # None THEN Min(deadline, now + AnchorCollectGrace)
       ELSE now + AnchorCollectGrace
  /\ last_pane_check' = now
  /\ chunks' = <<>>
  /\ anchor_seen' = FALSE
  /\ anchor_ms' = None
  /\ done_seen' = FALSE
  /\ done_ms' = None
  /\ fallback_scan' = FALSE
  /\ rebounded' = FALSE
  /\ pc' = "top"
  /\ UNCHANGED <<queueVars, cancelled, cur, timeout_s, now, deadline,
                 wait_step, pane_id, readerVars, events, delivered, result,
                 histVars, dropped>>
  /\ UNCHANGED extVars

DeadlineReached_Never(dl, t) == FALSE

\* lines 615-618
DeadlineReached(dl, t) == dl # None /\ dl - t <= 0

\* lines 614-621: top of the wait loop
LoopTop ==
  /\ pc = "top"
  /\ IF DeadlineReached(deadline, now)
     THEN /\ pc' = "build"
          /\ UNCHANGED wait_step
     ELSE /\ wait_step' = IF deadline # None
                          THEN Min(deadline - now, WaitStepMax)
                          ELSE WaitStepMax
          /\ pc' = "pane"
  /\ UNCHANGED <<queueVars, cancelled, cur, timeout_s, now, deadline,
                 anchor_grace_deadline, anchor_collect_grace, last_pane_check,
                 pane_id, readerVars, events, delivered, scanVars, rebindVars,
                 result, histVars, dropped>>
  /\ UNCHANGED extVars

\* lines 623-640: the periodic pane liveness check (an exception of is_alive
\* counts as a dead pane)
PaneCheck ==
  /\ pc = "pane"
  /\ IF now - last_pane_check >= PaneCheckInterval
     THEN \E alive \in BOOLEAN :
            IF ~alive
            THEN /\ result' = ProviderResult(1, ReplyPaneDied, ReqIdOf(cur),
                                             FALSE, None, anchor_seen,
                                             anchor_ms, fallback_scan)
                 /\ wait_cancelled' =
                      [wait_cancelled EXCEPT ![cur] = cancelled[cur]]
                 /\ pc' = "finalize"
                 /\ UNCHANGED last_pane_check
            ELSE /\ last_pane_check' = now
                 /\ pc' = "wait"
                 /\ UNCHANGED <<result, wait_cancelled>>
     ELSE /\ pc' = "wait"
          /\ UNCHANGED <<result, wait_cancelled, last_pane_check>>
  /\ UNCHANGED <<queueVars, cancelled, cur, timeout_s, now, deadline,
                 anchor_grace_deadline, anchor_collect_grace, wait_step,
                 pane_id, readerVars, events, delivered, scanVars, rebindVars,
                 notified, injected, budget, dropped>>
  /\ UNCHANGED extVars

\* the clock may advance while a deadline is ahead or below the bound
CanTick == now < MaxNow \/ (deadline # None /\ now < deadline)

\* line 642: log_reader.wait_for_events(state, wait_step) blocks up to
\* wait_step and returns the events written after the cursor, in log order
WaitForEvents ==
  /\ pc = "wait"
  /\ \E batch \in Batches(ReqIdOf(cur), budget - delivered) :
       /\ events' = batch
       /\ delivered' = delivered + Len(batch)
       /\ state' = state
       /\ pc' = IF batch = <<>> THEN "empty" ELSE "event"
  /\ \E d \in 0..wait_step : (d = 0 \/ CanTick) /\ now' = now + d
  /\ UNCHANGED <<queueVars, cancelled, cur, timeout_s, timeVars, pane_id,
                 reader, scanVars, rebindVars, result, histVars, dropped>>
  /\ UNCHANGED extVars

ShouldRebind_Late(rb, seen, t, grace) == (~rb) /\ (~seen) /\ t > grace

\* line 644
ShouldRebind(rb, seen, t, grace) == (~rb) /\ (~seen) /\ t >= grace

\* lines 643-650: the batch was empty; rebind the reader once when no anchor
\* was seen within the anchor grace
EmptyBatch ==
  /\ pc = "empty"
  /\ IF ShouldRebind(rebounded, anchor_seen, now, anchor_grace_deadline)
     THEN /\ reader' = "permissive"
          /\ \E exists \in BOOLEAN, size \in 0..MaxLogSize :
               state' = TailStateForLog(exists, size, TailBytes)
          /\ fallback_scan' = TRUE
          /\ rebounded' = TRUE
     ELSE UNCHANGED <<readerVars, rebindVars>>
  /\ pc' = "top"
  /\ UNCHANGED <<queueVars, cancelled, cur, timeout_s, now, timeVars, pane_id,
                 events, delivered, scanVars, result, histVars, dropped>>
  /\ UNCHANGED extVars

AnchorMsUpdate_Overwrite(ms, t) == t

\* lines 656-657
AnchorMsUpdate(ms, t) == IF ms = None THEN t ELSE ms

SkipAssistant_Never(seen, t, grace) == FALSE

SkipAssistant_ShortGrace(seen, t, grace) == (~seen) /\ t < grace - 1

\* line 661
SkipAssistant(seen, t, grace) == (~seen) /\ t < grace

\* lines 652-671: one iteration of the for loop over the batch, and the exit
\* from the for loop
ProcessEvent ==
  /\ pc = "event"
  /\ events # <<>>
  /\ LET e == Head(events)
         rest == Tail(events)
         next_pc == IF rest = <<>> THEN "top" ELSE "event"
     IN IF e.role = "user"
        THEN /\ IF HasAnchor(e.text, ReqIdOf(cur))
                THEN /\ anchor_seen' = TRUE
                     /\ anchor_ms' = AnchorMsUpdate(anchor_ms, now)
                ELSE UNCHANGED <<anchor_seen, anchor_ms>>
             /\ events' = rest
             /\ pc' = next_pc
             /\ UNCHANGED <<chunks, done_seen, done_ms, dropped>>
        ELSE IF e.role # "assistant"
        THEN /\ events' = rest
             /\ pc' = next_pc
             /\ UNCHANGED <<scanVars, dropped>>
        ELSE IF SkipAssistant(anchor_seen, now, anchor_collect_grace)
        THEN /\ events' = rest
             /\ pc' = next_pc
             /\ dropped' = 1
             /\ UNCHANGED scanVars
        ELSE /\ chunks' = Append(chunks, e.text)
             /\ IF IsDoneText(JoinChunks(Append(chunks, e.text)), ReqIdOf(cur))
                THEN /\ done_seen' = TRUE
                     /\ done_ms' = now
                     /\ events' = <<>>
                     /\ pc' = "build"
                ELSE /\ events' = rest
                     /\ pc' = next_pc
                     /\ UNCHANGED <<done_seen, done_ms>>
             /\ UNCHANGED <<anchor_seen, anchor_ms, dropped>>
  /\ UNCHANGED <<queueVars, cancelled, cur, timeout_s, now, timeVars, pane_id,
                 readerVars, delivered, rebindVars, result, histVars>>
  /\ UNCHANGED extVars

ExitCodeFor_Zero(seen) == 0

\* line 677
ExitCodeFor(seen) == IF seen THEN 0 ELSE 2

\* lines 673-687: the loop was left by the deadline or by the done marker
BuildResult ==
  /\ pc = "build"
  /\ result' = ProviderResult(ExitCodeFor(done_seen),
                              ExtractReplyForReq(JoinChunks(chunks), ReqIdOf(cur)),
                              ReqIdOf(cur), done_seen, done_ms, anchor_seen,
                              anchor_ms, fallback_scan)
  /\ wait_cancelled' = [wait_cancelled EXCEPT ![cur] = cancelled[cur]]
  /\ pc' = "finalize"
  /\ UNCHANGED <<queueVars, cancelled, cur, timeout_s, now, timeVars, pane_id,
                 readerVars, events, delivered, scanVars, rebindVars, notified,
                 injected, budget, dropped>>
  /\ UNCHANGED extVars

ShouldNotify_Always(c) == TRUE

ShouldNotify_Never(c) == FALSE

\* lines 556-558
ShouldNotify(c) == ~c

\* lines 548-550: _postprocess_reply, _finalize_result, return.  The message
\* of the request asks for none of the reply formats _postprocess_reply
\* rewrites, so the reply is returned as extracted.
Finalize ==
  /\ pc = "finalize"
  /\ notified' = IF ShouldNotify(cancelled[cur])
                 THEN [notified EXCEPT ![cur] = @ + 1]
                 ELSE notified
  /\ ReturnResult(result)
  /\ UNCHANGED <<wait_cancelled, injected, budget>>
  /\ UNCHANGED extVars

\* time passes
Tick ==
  /\ pc \notin {"idle", "build", "finalize"}
  /\ IF pc \in {"start", "inject", "wait_init"}
     THEN now < MaxSetupDelay
     ELSE CanTick
  /\ now' = now + 1
  /\ UNCHANGED <<queueVars, cancelled, cur, pc, timeout_s, timeVars, pane_id,
                 readerVars, events, delivered, scanVars, rebindVars, result,
                 histVars, dropped>>
  /\ UNCHANGED extVars

Next ==
  \/ \E t \in Tasks : Submit(t)
  \/ \E t \in Tasks : Cancel(t)
  \/ Dispatch
  \/ HandleTaskStart
  \/ Inject
  \/ WaitInit
  \/ LoopTop
  \/ PaneCheck
  \/ WaitForEvents
  \/ EmptyBatch
  \/ ProcessEvent
  \/ BuildResult
  \/ Finalize
  \/ Tick

Spec == Init /\ [][Next]_vars

QueueSpec == InitQueue /\ [][Next]_vars

TypeOK ==
  /\ pc \in {"idle", "start", "inject", "wait_init", "top", "pane", "wait",
             "empty", "event", "build", "finalize"}
  /\ cur \in Tasks \cup {NoTask}
  /\ now \in 0..(MaxNow + MaxTimeout + MaxSetupDelay)

\* the worker thread keeps running, wait_for_events returns, time advances
EngineStep ==
  \/ Dispatch
  \/ HandleTaskStart
  \/ Inject
  \/ WaitInit
  \/ LoopTop
  \/ PaneCheck
  \/ WaitForEvents
  \/ EmptyBatch
  \/ ProcessEvent
  \/ BuildResult
  \/ Finalize

FairSpec == InitFew /\ [][Next]_vars /\ WF_vars(EngineStep) /\ WF_vars(Tick)

\* ------------------------------------------------------------- properties
HasResult == result.exit_code # None
Returned(t) == tstate[t] = "returned" /\ HasResult /\ result.req_id = ReqIdOf(t)
PaneDiedResult == HasResult /\ result.exit_code = 1 /\ result.reply = ReplyPaneDied

\* C1: every ProviderResult of handle_task has done_seen = true exactly when
\* exit_code = 0
Thm_C1_DoneIffExitZero ==
  HasResult => (result.done_seen <=> result.exit_code = 0)

Wit_C1_DoneResult ==
  pc = "idle" /\ HasResult /\ result.done_seen /\ result.exit_code = 0

\* C2 as stated: a request that ended by a failed pane liveness check never
\* has its completion notifier invoked
Cex_C2_PaneDeathNeverNotifies ==
  \A t \in Tasks : (Returned(t) /\ PaneDiedResult) => notified[t] = 0

\* C2 amended: such a request has its notifier invoked exactly once, unless
\* task.cancelled is set when the result is finalized; then it is not invoked
Thm_C2_PaneDeathNotifiesUnlessCancelled ==
  \A t \in Tasks :
    (Returned(t) /\ PaneDiedResult)
      => notified[t] = (IF cancelled[t] THEN 0 ELSE 1)

Wit_C2_PaneDeathNotified ==
  \E t \in Tasks :
    Returned(t) /\ PaneDiedResult /\ ~cancelled[t] /\ notified[t] = 1

\* C3 as stated: when task.cancelled is set, the iteration of the wait loop
\* that starts next leaves the loop
Cex_C3_CancelExitsLoop ==
  [][(pc = "top" /\ cancelled[cur] /\ pc' # "top") => pc' = "build"]_vars

\* C4: the notifier is never invoked for a task whose cancelled flag was set
\* before its wait finished
Thm_C4_CancelledNeverNotified ==
  \A t \in Tasks : wait_cancelled[t] => notified[t] = 0

Wit_C4_CancelledReturned ==
  \E t \in Tasks :
    wait_cancelled[t] /\ tstate[t] = "returned" /\ notified[t] = 0

\* C5: a request with timeout_s >= 0 that has entered the wait loop eventually
\* leaves it; when no done marker was seen and the pane did not die, its
\* result has exit_code = 2 and done_seen = false
Thm_C5_DeadlineReturns ==
  (pc = "top" /\ timeout_s >= 0)
    ~> (pc = "finalize"
        /\ (result.done_seen \/ PaneDiedResult
            \/ (result.exit_code = 2 /\ ~result.done_seen)))

Wit_C5_TimedOut ==
  pc = "finalize" /\ timeout_s > 0 /\ now >= deadline
  /\ result.exit_code = 2 /\ ~result.done_seen

\* C6 as stated: every result with done_seen = true has anchor_seen = true
Cex_C6_DoneImpliesAnchor ==
  HasResult => (result.done_seen => result.anchor_seen)

\* C6 amended: every result with done_seen = true has anchor_seen = true,
\* unless the done marker was detected when the anchor-collect grace had
\* elapsed
Thm_C6_DoneImpliesAnchorOrGraceOver ==
  (pc = "finalize" /\ result.done_seen)
    => (result.anchor_seen \/ result.done_ms >= anchor_collect_grace)

Wit_C6_DoneInGraceWithAnchor ==
  pc = "finalize" /\ result.done_seen /\ result.anchor_seen
  /\ result.done_ms < anchor_collect_grace

\* C7: anchor_ms <= done_ms in every result that has both, and anchor_ms,
\* once recorded, is not changed while the request is waited for
Thm_C7_AnchorBeforeDone ==
  /\ [](HasResult /\ result.anchor_ms # None /\ result.done_ms # None
          => result.anchor_ms <= result.done_ms)
  /\ [][(anchor_ms # None /\ cur' = cur) => anchor_ms' = anchor_ms]_vars

Wit_C7_AnchorThenDone ==
  HasResult /\ result.anchor_ms # None /\ result.done_ms # None
  /\ result.anchor_ms < result.done_ms

\* C8: an assistant event handled while no anchor has been seen and the
\* anchor-collect grace has not elapsed is not appended to the chunks and
\* does not trigger done detection
Thm_C8_StaleAssistantIgnored ==
  [][(pc = "event" /\ events # <<>> /\ Head(events).role = "assistant"
        /\ ~anchor_seen /\ now < anchor_collect_grace)
       => (chunks' = chunks /\ done_seen' = done_seen /\ pc' # "build")]_vars

Wit_C8_StaleDroppedThenDone ==
  pc = "finalize" /\ dropped >= 1 /\ result.done_seen /\ result.anchor_seen
  /\ result.reply = <<TextLine>>

Rebound(st) ==
  /\ reader' = "permissive"
  /\ st \in {TailStateForLog(e, n, TailBytes) :
               e \in BOOLEAN, n \in 0..MaxLogSize}
  /\ fallback_scan'
  /\ rebounded'

IsInjected(t) == \E i \in 1..Len(injected) : injected[i] = t
Pos(q, t) == CHOOSE i \in 1..Len(q) : q[i] = t
InFlight(t) == IsInjected(t) /\ tstate[t] # "returned"

\* C10: prompts are injected in submission order, a prompt is injected only
\* when handle_task has returned for every task submitted earlier, and at
\* most one injected request is without its result
Thm_C10_FifoNoOverlap ==
  /\ Cardinality({t \in Tasks : InFlight(t)}) <= 1
  /\ \A t, u \in Tasks :
       (IsInjected(u) /\ tstate[t] # "new" /\ tstate[u] # "new"
          /\ Pos(submitted, t) < Pos(submitted, u))
         => tstate[t] = "returned"

Wit_C10_BothInjected ==
  Len(injected) = 2 /\ \A t \in Tasks : tstate[t] = "returned"

\* ------------------------------------------------- early returns (C11)
EarlyReplies == {ReplyNoSession, ReplyNoPane, ReplyNoBackend}

\* C11: when there is no session for the work_dir, no live pane or no terminal
\* backend, handle_task returns exit_code = 1 at once: the prompt of the task
\* is not sent, the task is not run again and its notifier is not invoked
Thm_C11_EarlyReturnQuiet ==
  /\ [](\A t \in Tasks :
         (Returned(t) /\ result.reply \in EarlyReplies)
           => (result.exit_code = 1 /\ ~IsInjected(t) /\ notified[t] = 0))
  /\ [][(pc = "start" /\ pc' \notin {"start", "inject"})
          => (/\ pc' = "idle"
              /\ result'.reply \in EarlyReplies
              /\ result'.exit_code = 1
              /\ tstate'[cur] = "returned"
              /\ injected' = injected
              /\ notified' = notified)]_vars

Wit_C11_NoPaneReturned ==
  /\ Returned("t1")
  /\ result.reply = ReplyNoPane
  /\ result.exit_code = 1
  /\ ~IsInjected("t1")
  /\ notified["t1"] = 0

\* ----------------------------------------------- the codec as a function
CodecIds == {"R0", "R1"} \cup HexIds

CodecLines ==
  {TextLine, PaddedLine, BlankLine, TagLine} \cup {DoneLine(i) : i \in CodecIds}

Texts(n) == UNION {[1..k -> CodecLines] : k \in 0..n}

\* any text and any request id
CodecInit ==
  /\ InitCore({"t1"}, MaxEvents)
  /\ MkIdle /\ OcIdle /\ RegIdle /\ LateOff
  /\ c_ops = {}
  /\ c_req \in CodecIds
  /\ c_text \in Texts(MaxLen)
  /\ c_x = <<>>
  /\ c_done = FALSE
  /\ c_reply = <<>>

\* is_done_text(c_text, c_req)
CallIsDoneText ==
  /\ "is_done" \notin c_ops
  /\ c_done' = IsDoneText(c_text, c_req)
  /\ c_ops' = c_ops \cup {"is_done"}
  /\ UNCHANGED <<c_req, c_text, c_x, c_reply>>
  /\ UNCHANGED <<coreVars, mkVars, ocVars, regVars, lateVars>>

\* a blank line or a generic *_DONE tag line is appended to the text and
\* is_done_text is asked again
AppendNoise ==
  /\ "is_done" \in c_ops
  /\ c_ops \cap {"extract", "wrap"} = {}
  /\ Len(c_text) <= MaxLen
  /\ \E n \in {BlankLine, TagLine} : c_text' = Append(c_text, n)
  /\ c_done' = IsDoneText(c_text', c_req)
  /\ c_ops' = c_ops \cup {"noise"}
  /\ UNCHANGED <<c_req, c_x, c_reply>>
  /\ UNCHANGED <<coreVars, mkVars, ocVars, regVars, lateVars>>

\* extract_reply_for_req(c_text, c_req)
CallExtractReply ==
  /\ "extract" \notin c_ops
  /\ c_reply' = ExtractReplyForReq(c_text, c_req)
  /\ c_ops' = c_ops \cup {"extract"}
  /\ UNCHANGED <<c_req, c_text, c_x, c_done>>
  /\ UNCHANGED <<coreVars, mkVars, ocVars, regVars, lateVars>>

HasDoneLine(lines) == \E i \in 1..Len(lines) : lines[i].k = "done"

\* the text is taken as the reply X of the provider: it follows the prompt
\* wrap_codex_prompt(m, c_req) and is followed by the done line of c_req
CallWrap ==
  /\ c_ops = {}
  /\ ~HasDoneLine(c_text)
  /\ \E m \in Texts(MaxMsgLen) :
       c_text' = WrapCodexPrompt(m, c_req) \o c_text \o <<DoneLine(c_req)>>
  /\ c_x' = c_text
  /\ c_ops' = {"wrap"}
  /\ UNCHANGED <<c_req, c_done, c_reply>>
  /\ UNCHANGED <<coreVars, mkVars, ocVars, regVars, lateVars>>

CodecNext ==
  \/ CallIsDoneText
  \/ AppendNoise
  \/ CallExtractReply
  \/ CallWrap

CodecSpec == CodecInit /\ [][CodecNext]_vars

SetMin(S) == CHOOSE x \in S : \A y \in S : x <= y

\* a text without its leading and trailing blank lines
BlankTrimmed(seg) ==
  LET nb == {i \in 1..Len(seg) : seg[i].k # "blank"}
  IN IF nb = {} THEN <<>> ELSE SubSeq(seg, SetMin(nb), SetMax(nb))

\* the text has the done line of a at i and the done line of b at j, i < j,
\* and no done line between them
DonePair(lines, i, a, j, b) ==
  /\ i < j
  /\ lines[i] = DoneLine(a)
  /\ lines[j] = DoneLine(b)
  /\ \A k \in (i + 1)..(j - 1) : lines[k].k # "done"

Extracted == "extract" \in c_ops /\ "wrap" \notin c_ops

Unwrapped == {"wrap", "extract"} \subseteq c_ops

Significant(lines) == {i \in 1..Len(lines) : lines[i].k \notin {"blank", "tag"}}

\* the last line that is neither blank nor a generic *_DONE tag is the done
\* line of r
LastSignificantIsDone(lines, r) ==
  /\ Significant(lines) # {}
  /\ lines[SetMax(Significant(lines))] = DoneLine(r)

\* C15: is_done_text(text, R) is true exactly when the last line that is
\* neither blank nor a generic *_DONE tag is the done line of R; it is false
\* when the text ends with the done line of another request; a blank line or
\* a tag line appended to the text does not change it
Thm_C15_DoneIffLastSignificantLine ==
  /\ []("is_done" \in c_ops
        => /\ c_done <=> LastSignificantIsDone(c_text, c_req)
           /\ (\E a \in CodecIds \ {c_req} :
                 c_text # <<>> /\ c_text[Len(c_text)] = DoneLine(a))
               => ~c_done)
  /\ [][("is_done" \in c_ops /\ c_text' # c_text) => c_done' = c_done]_vars

Wit_C15_DoneBeforeNoise ==
  /\ "noise" \in c_ops
  /\ c_done
  /\ c_req = "R1"
  /\ c_text = <<TextLine, DoneLine("R1"), TagLine, BlankLine>>

\* C16 as stated: for a request id R of the hex form and a text that ends with
\* the done line of R after an earlier done line, is_done_text is true and
\* extract_reply_for_req is the text between the two done lines
Cex_C16_HexIdLikeDatedId ==
  (/\ {"is_done", "extract"} \subseteq c_ops
   /\ "wrap" \notin c_ops
   /\ c_req \in HexIds
   /\ Len(c_text) >= 2
   /\ c_text[Len(c_text)] = DoneLine(c_req)
   /\ HasDoneLine(SubSeq(c_text, 1, Len(c_text) - 1)))
    => LET n == Len(c_text)
           i == SetMax({k \in 1..(n - 1) : c_text[k].k = "done"})
       IN c_done /\ c_reply = RStripText(BlankTrimmed(SubSeq(c_text, i + 1, n - 1)))

\* ------------------------------------------------------------ make_req_id
\* The threads of one process call make_req_id.  `_req_id_counter += 1` is a
\* read and a write of the global with no lock around them, and the f-string
\* of the return statement reads the global again after the calls of
\* strftime and getpid, so another thread may run between any two of them.
ReqIdInit == InitCore({"t1"}, MaxEvents) /\ CodecIdle /\ MkIdle /\ OcIdle /\ RegIdle /\ LateOff

\* lines 53-54: now = datetime.now()
MkCall(t) ==
  /\ mk_pc[t] = "idle"
  /\ mk_calls < MaxCalls
  /\ mk_calls' = mk_calls + 1
  /\ mk_call' = [mk_call EXCEPT ![t] = mk_calls + 1]
  /\ mk_now' = [mk_now EXCEPT ![t] = mk_clock]
  /\ mk_pc' = [mk_pc EXCEPT ![t] = "load"]
  /\ UNCHANGED <<req_id_counter, mk_tmp, mk_issued, mk_clock>>
  /\ UNCHANGED <<coreVars, codecVars, ocVars, regVars, lateVars>>

\* line 55: the global is read
MkLoad(t) ==
  /\ mk_pc[t] = "load"
  /\ mk_tmp' = [mk_tmp EXCEPT ![t] = req_id_counter]
  /\ mk_pc' = [mk_pc EXCEPT ![t] = "store"]
  /\ UNCHANGED <<req_id_counter, mk_now, mk_call, mk_calls, mk_issued, mk_clock>>
  /\ UNCHANGED <<coreVars, codecVars, ocVars, regVars, lateVars>>

\* line 55: the sum is written to the global
MkStore(t) ==
  /\ mk_pc[t] = "store"
  /\ req_id_counter' = mk_tmp[t] + 1
  /\ mk_pc' = [mk_pc EXCEPT ![t] = "format"]
  /\ UNCHANGED <<mk_tmp, mk_now, mk_call, mk_calls, mk_issued, mk_clock>>
  /\ UNCHANGED <<coreVars, codecVars, ocVars, regVars, lateVars>>

\* line 56: the id is formatted from now, the pid and the global as it is at
\* that moment, and returned
MkReturn(t) ==
  /\ mk_pc[t] = "format"
  /\ mk_issued' = mk_issued \cup {[call |-> mk_call[t], ms |-> mk_now[t], seq |-> req_id_counter]}
  /\ mk_pc' = [mk_pc EXCEPT ![t] = "idle"]
  /\ UNCHANGED <<req_id_counter, mk_tmp, mk_now, mk_call, mk_calls, mk_clock>>
  /\ UNCHANGED <<coreVars, codecVars, ocVars, regVars, lateVars>>

\* a millisecond passes
MkTick ==
  /\ mk_clock < MaxClock
  /\ mk_clock' = mk_clock + 1
  /\ UNCHANGED <<req_id_counter, mk_pc, mk_tmp, mk_now, mk_call, mk_calls, mk_issued>>
  /\ UNCHANGED <<coreVars, codecVars, ocVars, regVars, lateVars>>

ReqIdNext ==
  \/ \E t \in Threads : MkCall(t)
  \/ \E t \in Threads : MkLoad(t)
  \/ \E t \in Threads : MkStore(t)
  \/ \E t \in Threads : MkReturn(t)
  \/ MkTick

ReqIdSpec == ReqIdInit /\ [][ReqIdNext]_vars

\* the id string: time stamp with milliseconds, pid (the same for all threads
\* of the process), seq
ReqIdString(r) == <<r.ms, r.seq>>

\* C17 as stated: of two ids returned in one process the one of the later
\* call has the greater seq, and the two ids differ, also when the calls run
\* in several threads
Cex_C17_SeqStrictlyIncreasing ==
  \A a, b \in mk_issued :
    a.call < b.call => (a.seq < b.seq /\ ReqIdString(a) # ReqIdString(b))

\* ------------------------------------------------ the OpenCode log reader
\* The storage holds the latest session of the project with its assistant
\* messages in the order of _message_sort_key.  A message is
\*   [id, completed, text, aborted, parent, fresh]
\* where completed is time.completed (None when absent, 0 for a stored time
\* stamp), text tells what _extract_text gives ("none" for the empty string,
\* "plain", "marker" with the completion marker, "done" with CCB_DONE:),
\* aborted tells whether _is_aborted_error accepts its error, parent is the
\* request id the text of its parentID message carries, and fresh is history:
\* the message was written or changed after the cursor was taken.
\* Time is counted in poll intervals and starts at 1, so that a time stamp
\* taken from the clock differs from a stored one.
OcReqIds == {"R1", "R2"}
MsgIds == [sA |-> <<"a1", "a2", "a3">>, sB |-> <<"b1", "b2", "b3">>]

ocStore == <<oc_sid, oc_updated, oc_msgs>>
ocLocals == <<oc_block, oc_deadline, oc_last_forced, oc_session_id>>

LastMsg(msgs) == msgs[Len(msgs)]

ResetFresh(msgs) == [i \in 1..Len(msgs) |-> [msgs[i] EXCEPT !.fresh = FALSE]]

\* capture_state for the latest session
CaptureOcState(sid, updated, msgs) ==
  [session_id |-> sid,
   session_updated |-> updated,
   assistant_count |-> Len(msgs),
   last_assistant_id |-> IF msgs = <<>> THEN NoId ELSE LastMsg(msgs).id,
   last_assistant_completed |-> IF msgs = <<>> THEN None ELSE LastMsg(msgs).completed,
   last_assistant_has_done |-> msgs # <<>> /\ LastMsg(msgs).text = "done"]

\* lines 1035-1054: completed_i of the latest message at time t
CompletedStamp(m, t) == IF m.completed # None THEN m.completed ELSE t

NoNewReply == [reply |-> NoReply, assistant_count |-> 0, last_assistant_id |-> NoId, last_assistant_completed |-> None, last_assistant_has_done |-> FALSE]

\* _find_new_assistant_reply_with_state at time t: the reply and reply_state
FindNewReply(msgs, st, t) ==
  IF msgs = <<>> THEN NoNewReply
  ELSE LET latest == LastMsg(msgs)
           completed_i == CompletedStamp(latest, t)
           has_done == latest.text = "done"
       IN IF latest.completed = None /\ latest.text \notin {"marker", "done"}
          THEN NoNewReply
          ELSE IF /\ Len(msgs) <= st.assistant_count
                  /\ latest.id = st.last_assistant_id
                  /\ completed_i = st.last_assistant_completed
                  /\ has_done = st.last_assistant_has_done
          THEN NoNewReply
          ELSE [reply |-> latest.text,
                assistant_count |-> Len(msgs),
                last_assistant_id |-> latest.id,
                last_assistant_completed |-> completed_i,
                last_assistant_has_done |-> has_done]

FollowSession_KeepCursor(st, session_id, current) == IF session_id # NoId /\ current # session_id THEN [st EXCEPT !.session_id = current] ELSE st

\* lines 1106-1118: the reader follows the newest session
FollowSession(st, session_id, current) ==
  IF session_id # NoId /\ current # session_id
  THEN [st EXCEPT !.session_id = current, !.session_updated = -1,
                  !.assistant_count = 0, !.last_assistant_id = NoId,
                  !.last_assistant_completed = None,
                  !.last_assistant_has_done = FALSE]
  ELSE st

\* line 1134: int(state.get("session_updated") or -1)
PrevUpdated(st) == IF st.session_updated = 0 THEN -1 ELSE st.session_updated

\* lines 1157-1181: the baseline of the cursor when no reply is ready
Baseline(st, updated, msgs) ==
  IF msgs = <<>>
  THEN [st EXCEPT !.session_updated = updated, !.assistant_count = 0]
  ELSE [st EXCEPT !.session_updated = updated,
                  !.assistant_count = Len(msgs),
                  !.last_assistant_id = LastMsg(msgs).id,
                  !.last_assistant_completed = LastMsg(msgs).completed,
                  !.last_assistant_has_done = (LastMsg(msgs).text = "done")]

\* the storage when the adapter takes its first cursor
OpenCodeInit ==
  /\ InitCore({"t1"}, MaxEvents)
  /\ CodecIdle /\ MkIdle /\ RegIdle /\ LateOff
  /\ oc_sid = "sA"
  /\ oc_updated \in {-1, 1}
  /\ oc_msgs = <<>>
  /\ oc_now = 1
  /\ oc_state = CaptureOcState(oc_sid, oc_updated, oc_msgs)
  /\ OcNoCall
  /\ oc_ret = NoReply
  /\ oc_seen = FALSE
  /\ oc_det = NoDetect

\* _read_since returns reply and cursor st to its caller
OcReturn(reply, st) ==
  /\ oc_ret' = reply
  /\ oc_seen' = (reply # NoReply)
  /\ oc_state' = st
  /\ oc_pc' = "idle"
  /\ oc_block' = FALSE
  /\ oc_deadline' = 0
  /\ oc_last_forced' = 0
  /\ oc_session_id' = NoId

\* lines 1086-1092: wait_for_message (block) or try_get_message is called
OcCall(block) ==
  /\ oc_pc = "idle"
  /\ oc_now <= MaxOcNow
  /\ oc_block' = block
  /\ oc_deadline' = oc_now + (IF block THEN MaxWait ELSE 0)
  /\ oc_last_forced' = oc_now
  /\ oc_session_id' = oc_state.session_id
  /\ oc_pc' = "loop"
  /\ oc_ret' = NoReply
  /\ oc_det' = NoDetect
  /\ UNCHANGED <<ocStore, oc_now, oc_state, oc_seen>>
  /\ UNCHANGED <<coreVars, codecVars, mkVars, regVars, lateVars>>

\* lines 1094-1184: one pass of the loop, up to the sleep
OcIterate ==
  /\ oc_pc = "loop"
  /\ LET st1 == FollowSession(oc_state, oc_session_id, oc_sid)
         changed == oc_updated # PrevUpdated(st1)
         forced == oc_block /\ ~changed /\ oc_now - oc_last_forced >= ForceReadPolls
         should_scan == changed \/ forced
         r == FindNewReply(oc_msgs, st1, oc_now)
     IN IF should_scan /\ r.reply # NoReply
        THEN /\ OcReturn(r.reply,
                         [session_id |-> oc_sid,
                          session_updated |-> oc_updated,
                          assistant_count |-> r.assistant_count,
                          last_assistant_id |-> r.last_assistant_id,
                          last_assistant_completed |-> r.last_assistant_completed,
                          last_assistant_has_done |-> r.last_assistant_has_done])
             /\ oc_msgs' = ResetFresh(oc_msgs)
        ELSE LET st2 == IF should_scan THEN Baseline(st1, oc_updated, oc_msgs) ELSE st1
             IN /\ oc_msgs' = IF should_scan THEN ResetFresh(oc_msgs) ELSE oc_msgs
                /\ IF ~oc_block
                   THEN OcReturn(NoReply, st2)
                   ELSE /\ oc_state' = st2
                        /\ oc_session_id' = oc_sid
                        /\ oc_last_forced' = IF forced THEN oc_now ELSE oc_last_forced
                        /\ oc_pc' = "sleep"
                        /\ UNCHANGED <<oc_block, oc_deadline, oc_ret, oc_seen>>
  /\ oc_det' = NoDetect
  /\ UNCHANGED <<oc_sid, oc_updated, oc_now>>
  /\ UNCHANGED <<coreVars, codecVars, mkVars, regVars, lateVars>>

\* lines 1186-1188: sleep one poll interval, then test the deadline
OcWake ==
  /\ oc_pc = "sleep"
  /\ oc_now' = oc_now + 1
  /\ IF oc_now' >= oc_deadline
     THEN OcReturn(NoReply, oc_state)
     ELSE /\ oc_pc' = "loop"
          /\ UNCHANGED <<ocLocals, oc_state, oc_ret, oc_seen>>
  /\ oc_det' = NoDetect
  /\ UNCHANGED ocStore
  /\ UNCHANGED <<coreVars, codecVars, mkVars, regVars, lateVars>>

\* -- OpenCode writes its storage between two passes of the reader's loop;
\* every write may touch time.updated
Touched(u) == {u} \cup (IF u >= 1 /\ u < MaxUpdated THEN {u + 1} ELSE {})

OcWrite(msgs) ==
  /\ oc_pc # "loop"
  /\ oc_msgs' = msgs
  /\ oc_updated' \in Touched(oc_updated)
  /\ oc_seen' = FALSE
  /\ oc_det' = NoDetect
  /\ UNCHANGED <<oc_sid, oc_now, oc_state, oc_pc, ocLocals, oc_ret>>
  /\ UNCHANGED <<coreVars, codecVars, mkVars, regVars, lateVars>>

SetLast(msgs, m) == [msgs EXCEPT ![Len(msgs)] = m]

\* a new assistant message answers the prompt that carries request id p,
\* once the message before it is finished
OcNewMessage(parents, aborts) ==
  /\ Len(oc_msgs) < MaxMsgs
  /\ IF oc_msgs = <<>> THEN TRUE ELSE (LastMsg(oc_msgs).completed # None \/ LastMsg(oc_msgs).aborted)
  /\ \E p \in parents, ab \in aborts :
       OcWrite(Append(oc_msgs, [id |-> MsgIds[oc_sid][Len(oc_msgs) + 1],
                                completed |-> None, text |-> "none",
                                aborted |-> ab, parent |-> p, fresh |-> TRUE]))

\* text parts of the latest message are written
OcWriteText ==
  /\ oc_msgs # <<>>
  /\ \E x \in {"plain", "marker", "done"} :
       /\ \/ LastMsg(oc_msgs).text = "none"
          \/ LastMsg(oc_msgs).text = "plain" /\ x # "plain"
       /\ OcWrite(SetLast(oc_msgs, [LastMsg(oc_msgs) EXCEPT !.text = x, !.fresh = TRUE]))

\* time.completed of the latest message is written
OcComplete ==
  /\ oc_msgs # <<>>
  /\ LastMsg(oc_msgs).completed = None
  /\ OcWrite(SetLast(oc_msgs, [LastMsg(oc_msgs) EXCEPT !.completed = 0, !.fresh = TRUE]))

\* the latest message is aborted in place
OcAbort ==
  /\ oc_msgs # <<>>
  /\ ~LastMsg(oc_msgs).aborted
  /\ OcWrite(SetLast(oc_msgs, [LastMsg(oc_msgs) EXCEPT !.aborted = TRUE, !.fresh = TRUE]))

\* a newer session of the project appears
OcNewSession ==
  /\ oc_pc # "loop"
  /\ oc_sid = "sA"
  /\ oc_sid' = "sB"
  /\ oc_msgs' = <<>>
  /\ oc_updated' \in Touched(oc_updated)
  /\ oc_seen' = FALSE
  /\ oc_det' = NoDetect
  /\ UNCHANGED <<oc_now, oc_state, oc_pc, ocLocals, oc_ret>>
  /\ UNCHANGED <<coreVars, codecVars, mkVars, regVars, lateVars>>

\* time passes between two calls of the reader
OcTick ==
  /\ oc_pc = "idle"
  /\ oc_now < MaxOcNow
  /\ oc_now' = oc_now + 1
  /\ oc_det' = NoDetect
  /\ UNCHANGED <<ocStore, oc_state, oc_pc, ocLocals, oc_ret, oc_seen>>
  /\ UNCHANGED <<coreVars, codecVars, mkVars, regVars, lateVars>>

\* the caller takes a new cursor with capture_state
OcCapture ==
  /\ oc_pc = "idle"
  /\ oc_state' = CaptureOcState(oc_sid, oc_updated, oc_msgs)
  /\ oc_msgs' = ResetFresh(oc_msgs)
  /\ oc_seen' = FALSE
  /\ oc_det' = NoDetect
  /\ UNCHANGED <<oc_sid, oc_updated, oc_now, oc_pc, ocLocals, oc_ret>>
  /\ UNCHANGED <<coreVars, codecVars, mkVars, regVars, lateVars>>

\* lines 1324-1349: the indexes of the messages detect_cancelled_since inspects
CancelCandidates(msgs, st) ==
  LET n == Len(msgs)
      last_id == IF n = 0 THEN NoId ELSE LastMsg(msgs).id
      last_completed == IF n = 0 THEN None ELSE LastMsg(msgs).completed
  IN {i \in 1..n : i > st.assistant_count}
     \cup {i \in 1..n : i = n}
     \cup {i \in 1..n : msgs[i].id = st.last_assistant_id /\ st.last_assistant_id # last_id}
     \cup {i \in 1..n : msgs[i].id = st.last_assistant_id /\ st.last_assistant_id = last_id /\ last_completed # st.last_assistant_completed}

\* lines 1354-1366: an inspected message is aborted and its parent carries req_id
DetectCancelledSince(msgs, st, req_id) == \E i \in CancelCandidates(msgs, st) : msgs[i].aborted /\ msgs[i].parent = req_id

\* detect_cancelled_since(oc_state, req_id); the caller may keep new_state
OcDetectCancelled ==
  /\ oc_pc = "idle"
  /\ \E req_id \in OcReqIds, keep \in BOOLEAN :
       /\ oc_det' = [called |-> TRUE, req |-> req_id,
                     ret |-> DetectCancelledSince(oc_msgs, oc_state, req_id),
                     fresh_abort |-> \E i \in 1..Len(oc_msgs) : oc_msgs[i].fresh /\ oc_msgs[i].aborted /\ oc_msgs[i].parent = req_id,
                     own_abort |-> \E i \in 1..Len(oc_msgs) : oc_msgs[i].aborted /\ oc_msgs[i].parent = req_id]
       /\ IF keep
          THEN /\ oc_state' = CaptureOcState(oc_sid, oc_updated, oc_msgs)
               /\ oc_msgs' = ResetFresh(oc_msgs)
               /\ oc_seen' = FALSE
          ELSE UNCHANGED <<oc_state, oc_msgs, oc_seen>>
  /\ UNCHANGED <<oc_sid, oc_updated, oc_now, oc_pc, ocLocals, oc_ret>>
  /\ UNCHANGED <<coreVars, codecVars, mkVars, regVars, lateVars>>

\* the reader polls while OpenCode answers the prompts of one request
OpenCodeNext ==
  \/ \E block \in BOOLEAN : OcCall(block)
  \/ OcIterate
  \/ OcWake
  \/ OcNewMessage({"R1"}, {FALSE})
  \/ OcWriteText
  \/ OcComplete
  \/ OcNewSession
  \/ OcTick
  \/ OcCapture

OpenCodeSpec == OpenCodeInit /\ [][OpenCodeNext]_vars

\* the caller looks for cancellations between calls of try_get_message,
\* while OpenCode answers or aborts the prompts of two requests
CancelNext ==
  \/ OcCall(FALSE)
  \/ OcIterate
  \/ OcNewMessage(OcReqIds, BOOLEAN)
  \/ OcWriteText
  \/ OcComplete
  \/ OcAbort
  \/ OcNewSession
  \/ OcCapture
  \/ OcDetectCancelled

CancelSpec == OpenCodeInit /\ [][CancelNext]_vars

\* C18: a call of wait_for_message or try_get_message that follows a call
\* which returned a reply, with the cursor that call returned and on
\* unchanged storage, returns no reply.
Cex_C18_NoReEmit == [][(oc_seen /\ oc_pc \in {"loop", "sleep"} /\ oc_pc' = "idle") => oc_ret' = NoReply]_vars

\* C19: detect_cancelled_since reports R as cancelled exactly when an
\* assistant message written or changed since the cursor is aborted and its
\* parent carries R, and never because of an abort of another request.
Cex_C19_CancelledIffOwnFreshAbort == oc_det.called => ((oc_det.ret <=> oc_det.fresh_abort) /\ (oc_det.ret => oc_det.own_abort))

\* ------------------------------------------- the binding of a Claude log
\* reg_logs tells of every log file whether it exists, its mtime, and its
\* session id (the id in its name, which is also the sessionId it records).
\* Two logs may carry one session id.  reg_path and reg_sid are
\* claude_session_path and claude_session_id of the .claude-session file;
\* reg_last is history: what the latest refresh did.
SessionIds == {"s1", "s2"}
RefreshPaths == {"start_cmd", "index", "scan"}

Existing(logs) == {l \in Logs : logs[l].exists}

ShouldOverwriteBinding_Always(logs, current, candidate) == TRUE

\* _should_overwrite_binding
ShouldOverwriteBinding(logs, current, candidate) ==
  IF current = NoLog THEN TRUE
  ELSE IF ~logs[current].exists THEN TRUE
  ELSE logs[candidate].mtime > logs[current].mtime

\* _find_log_for_session_id: a newest log named after session_id
FindLogForSessionId(logs, session_id) ==
  {l \in Existing(logs) :
     /\ logs[l].sid = session_id
     /\ \A k \in Existing(logs) : logs[k].sid = session_id => logs[k].mtime <= logs[l].mtime}

\* update_claude_binding(session_path=candidate, session_id=sid)
RegBind(via, candidate, sid) ==
  /\ reg_last' = [via |-> via,
                  replaced |-> reg_path # NoLog /\ candidate # reg_path,
                  older |-> IF reg_path = NoLog THEN FALSE
                            ELSE reg_logs[reg_path].exists /\ reg_logs[candidate].mtime < reg_logs[reg_path].mtime,
                  sid_differs |-> sid # NoId /\ sid # reg_sid]
  /\ reg_path' = candidate
  /\ reg_sid' = IF sid # NoId THEN sid ELSE reg_sid

\* the refresh leaves the binding as it is
RegKeep(via) ==
  /\ reg_last' = [via |-> via, replaced |-> FALSE, older |-> FALSE, sid_differs |-> FALSE]
  /\ UNCHANGED <<reg_path, reg_sid>>

\* _refresh_claude_log_binding.  intended_sid is the session id of the start
\* command, index the log _parse_sessions_index selects, scanned the log
\* _scan_latest_log_for_work_dir selects, meta whether that log records a
\* sessionId.
RefreshBinding ==
  /\ \E intended_sid \in SessionIds \cup {NoId}, index \in Existing(reg_logs) \cup {NoLog}, scanned \in Existing(reg_logs) \cup {NoLog}, meta \in BOOLEAN, force_scan \in BOOLEAN :
       LET intended_logs == IF intended_sid = NoId THEN {} ELSE FindLogForSessionId(reg_logs, intended_sid)
           candidate_sid == IF scanned # NoLog /\ meta THEN reg_logs[scanned].sid ELSE NoId
       IN IF intended_logs # {}
          THEN \E intended_log \in intended_logs :
                 IF ShouldOverwriteBinding(reg_logs, reg_path, intended_log) \/ reg_sid # intended_sid
                 THEN RegBind("start_cmd", intended_log, intended_sid)
                 ELSE RegKeep("start_cmd")
          ELSE IF index # NoLog /\ (ShouldOverwriteBinding(reg_logs, reg_path, index) \/ reg_sid # reg_logs[index].sid)
          THEN RegBind("index", index, reg_logs[index].sid)
          ELSE IF index # NoLog /\ ~force_scan
          THEN RegKeep("index")
          ELSE IF scanned = NoLog
          THEN RegKeep("scan")
          ELSE IF ShouldOverwriteBinding(reg_logs, reg_path, scanned) \/ (candidate_sid # NoId /\ candidate_sid # reg_sid)
          THEN RegBind("scan", scanned, candidate_sid)
          ELSE RegKeep("scan")
  /\ UNCHANGED reg_logs
  /\ UNCHANGED <<coreVars, codecVars, mkVars, ocVars, lateVars>>

\* _on_new_log_file for a log of the watched project; cwd tells whether the
\* log records a cwd (which is then within the work_dir of the session)
OnNewLogFile ==
  /\ \E path \in Existing(reg_logs), cwd \in BOOLEAN :
       IF ~cwd /\ ~ShouldOverwriteBinding(reg_logs, reg_path, path) /\ reg_sid = reg_logs[path].sid
       THEN RegKeep("watcher")
       ELSE RegBind("watcher", path, reg_logs[path].sid)
  /\ UNCHANGED reg_logs
  /\ UNCHANGED <<coreVars, codecVars, mkVars, ocVars, lateVars>>

\* -- Claude writes its log files
RegFiles(logs) ==
  /\ reg_logs' = logs
  /\ reg_last' = NoRefresh
  /\ UNCHANGED <<reg_path, reg_sid>>
  /\ UNCHANGED <<coreVars, codecVars, mkVars, ocVars, lateVars>>

CreateLog ==
  \E l \in Logs \ Existing(reg_logs), sid \in SessionIds, m \in 0..MaxMtime :
    RegFiles([reg_logs EXCEPT ![l] = [exists |-> TRUE, mtime |-> m, sid |-> sid]])

AppendToLog ==
  \E l \in Existing(reg_logs), m \in 0..MaxMtime :
    /\ m > reg_logs[l].mtime
    /\ RegFiles([reg_logs EXCEPT ![l].mtime = m])

DeleteLog ==
  \E l \in Existing(reg_logs) :
    RegFiles([reg_logs EXCEPT ![l] = [exists |-> FALSE, mtime |-> 0, sid |-> NoId]])

RegistryInit ==
  /\ InitCore({"t1"}, MaxEvents)
  /\ CodecIdle /\ MkIdle /\ OcIdle /\ RegIdle /\ LateOff

RegistryNext ==
  \/ RefreshBinding
  \/ OnNewLogFile
  \/ CreateLog
  \/ AppendToLog
  \/ DeleteLog

RegistrySpec == RegistryInit /\ [][RegistryNext]_vars

\* C20 as stated: no refresh path replaces the current claude_session_path,
\* whose file exists, by a log with a strictly older mtime.
Cex_C20_NeverReplacedByOlder == (reg_last.via \in RefreshPaths /\ reg_last.replaced) => ~reg_last.older

\* C20: a refresh path replaces the current claude_session_path, whose file
\* exists, by a log with a strictly older mtime only when the session id of
\* that log is known and differs from the bound claude_session_id.
Thm_C20_OlderOnlyWhenSessionDiffers == (reg_last.via \in RefreshPaths /\ reg_last.replaced /\ reg_last.older) => reg_last.sid_differs

Wit_C20_OlderLogOfOtherSession == reg_last.via = "scan" /\ reg_last.replaced /\ reg_last.older /\ reg_last.sid_differs

\* -------------------------------------- binding updates of a session file
\* One registered session: sess_data is the data of entry.session, which the
\* monitor refresh, the per-project watcher and the root watcher all update
\* through update_claude_binding; the root watcher first rewrites the file
\* itself with _update_session_file_direct.  No lock guards either.  A
\* thread may be preempted between the numbered steps.
BindingOf(f) == [path |-> f.path, id |-> f.id]

OthersIdle(t) == \A u \in BindThreads \ {t} : bind_th[u].pc = "idle"

\* a session-file write of thread t records the binding the update replaced
Records(c, f) == c.stamped /\ f.old_path = c.from.path /\ f.old_id = c.from.id

\* a thread starts an update; the threads already running are no longer alone
BindStart(t, b, first) ==
  /\ bind_th[t].pc = "idle"
  /\ bind_ops < MaxBindOps
  /\ bind_ops' = bind_ops + 1
  /\ bind_th' = [u \in BindThreads |->
                   IF u = t
                   THEN [NoBindCall EXCEPT !.pc = first, !.arg = b, !.solo = OthersIdle(t), !.from = BindingOf(sess_file)]
                   ELSE [bind_th[u] EXCEPT !.solo = FALSE]]
  /\ bind_last' = NoBindOp
  /\ UNCHANGED <<sess_file, sess_data, bind_hist>>
  /\ UNCHANGED <<earlyVars, lockVars, tailVars>>

\* _check_one: the refresh found candidate b and calls update_claude_binding
MonitorRefresh == \E b \in Bindings : BindStart("monitor", b, "U1")

\* _on_new_log_file: a log of the project appeared
WatcherCallback == \E b \in Bindings : BindStart("watcher", b, "U1")

\* _on_new_log_file_global: a log appeared whose cwd is the work_dir
RootCallback == \E b \in Bindings : BindStart("root", b, "D1")

\* the update of thread t is over
BindDone(t, c) ==
  /\ bind_th' = [bind_th EXCEPT ![t] = NoBindCall]
  /\ bind_last' = [done |-> TRUE, by |-> t, from |-> c.from, to |-> c.arg, recs |-> c.recs, solo |-> c.solo]

\* _update_session_file_direct, lines 817-823: read the file
DirectRead(t) ==
  /\ bind_th[t].pc = "D1"
  /\ bind_th' = [bind_th EXCEPT ![t].payload = sess_file, ![t].old = BindingOf(sess_file), ![t].pc = "D2"]
  /\ UNCHANGED <<sess_file, sess_data, bind_ops, bind_hist, bind_last>>
  /\ UNCHANGED <<earlyVars, lockVars, tailVars>>

\* lines 837-851: the payload written by _update_session_file_direct
DirectPayload(payload, old, b) ==
  [path |-> b.path,
   id |-> b.id,
   old_path |-> IF old.path # NoLog /\ old.path # b.path THEN old.path ELSE payload.old_path,
   old_id |-> IF old.id # NoId /\ old.id # b.id THEN old.id ELSE payload.old_id]

\* line 843: old_updated_at is set
DirectStamps(old, b) == (old.id # NoId /\ old.id # b.id) \/ (old.path # NoLog /\ old.path # b.path)

\* lines 837-851 and 876-879: write the file, then turn to entry.session
DirectWrite(t) ==
  /\ bind_th[t].pc = "D2"
  /\ LET c == bind_th[t]
         f == DirectPayload(c.payload, c.old, c.arg)
         c1 == [c EXCEPT !.stamped = DirectStamps(c.old, c.arg)]
     IN /\ sess_file' = f
        /\ bind_th' = [bind_th EXCEPT ![t] = [c1 EXCEPT !.recs = c.recs + (IF Records(c1, f) THEN 1 ELSE 0), !.stamped = FALSE, !.pc = "U1"]]
  /\ UNCHANGED <<sess_data, bind_ops, bind_hist, bind_last>>
  /\ UNCHANGED <<earlyVars, lockVars, tailVars>>

\* update_claude_binding, lines 190-205: read the old binding, set the new
UpdateSet(t) ==
  /\ bind_th[t].pc = "U1"
  /\ LET c == bind_th[t]
         updated == sess_data.path # c.arg.path \/ sess_data.id # c.arg.id
     IN /\ sess_data' = [sess_data EXCEPT !.path = c.arg.path, !.id = c.arg.id]
        /\ bind_hist' = IF updated THEN [cur |-> c.arg, prev |-> BindingOf(sess_data)] ELSE bind_hist
        /\ IF updated
           THEN /\ bind_th' = [bind_th EXCEPT ![t].old = BindingOf(sess_data), ![t].updated = TRUE, ![t].pc = "U2"]
                /\ UNCHANGED bind_last
           ELSE BindDone(t, c)
  /\ UNCHANGED <<sess_file, bind_ops>>
  /\ UNCHANGED <<earlyVars, lockVars, tailVars>>

\* lines 207-219: copy the old binding to the old_* fields of the data
UpdateOld(t) ==
  /\ bind_th[t].pc = "U2"
  /\ LET c == bind_th[t]
         id_differs == c.old.id # NoId /\ c.old.id # c.arg.id
     IN /\ sess_data' = [sess_data EXCEPT
                          !.old_id = IF id_differs THEN c.old.id ELSE @,
                          !.old_path = IF c.old.path # NoLog /\ (c.old.path # c.arg.path \/ id_differs) THEN c.old.path ELSE @]
        /\ bind_th' = [bind_th EXCEPT ![t].stamped = (c.old.path # NoLog \/ c.old.id # NoId), ![t].pc = "U3"]
  /\ UNCHANGED <<sess_file, bind_ops, bind_hist, bind_last>>
  /\ UNCHANGED <<earlyVars, lockVars, tailVars>>

\* line 223, _write_back: the data is written to the session file
UpdateWrite(t) ==
  /\ bind_th[t].pc = "U3"
  /\ sess_file' = sess_data
  /\ BindDone(t, [bind_th[t] EXCEPT !.recs = @ + (IF Records(bind_th[t], sess_data) THEN 1 ELSE 0)])
  /\ UNCHANGED <<sess_data, bind_ops, bind_hist>>
  /\ UNCHANGED <<earlyVars, lockVars, tailVars>>

BindingInit == InitCore({"t1"}, MaxEvents) /\ CodecIdle /\ MkIdle /\ OcIdle /\ RegIdle /\ BindIdle /\ LockOff /\ PjOff /\ MailOff /\ LastOff

BindingNext ==
  \/ MonitorRefresh
  \/ WatcherCallback
  \/ RootCallback
  \/ \E t \in BindThreads : DirectRead(t)
  \/ \E t \in BindThreads : DirectWrite(t)
  \/ \E t \in BindThreads : UpdateSet(t)
  \/ \E t \in BindThreads : UpdateOld(t)
  \/ \E t \in BindThreads : UpdateWrite(t)

BindingSpec == BindingInit /\ [][BindingNext]_vars

\* C21: a binding update that ran alone and changed the binding made exactly
\* one session-file write that records the replaced path and id in the
\* old_* fields and sets old_updated_at.
Cex_C21_ExactlyOneRecordingWrite == (bind_last.done /\ bind_last.solo /\ bind_last.to # bind_last.from) => bind_last.recs = 1

\* C29: when no binding update is running, the session file holds the
\* binding applied last, and its old_* fields hold the binding that was
\* current right before it.
Cex_C29_FileConsistentAfterUpdates == (\A t \in BindThreads : bind_th[t].pc = "idle") => (BindingOf(sess_file) = bind_hist.cur /\ (bind_hist.prev # NoBinding => (sess_file.old_path = bind_hist.prev.path /\ sess_file.old_id = bind_hist.prev.id)))

\* ------------------------------------------------ the session registry
\* One work_dir.  A `with self._lock` block that does no I/O is one step;
\* a block that does I/O is split, so that the lock is held between its
\* steps.  Every step records in lk_step the I/O it performs ("stat" for
\* exists/stat of the session file, "load" for load_project_session, "pane"
\* for ensure_pane, "refresh" for _refresh_claude_log_binding) and whether
\* its thread holds the lock.
LkStep(t, io) == lk_step' = [by |-> t, at |-> lk_pc[t], io |-> io, locked |-> lk_owner = t]

LkGoto(t, to) == lk_pc' = [lk_pc EXCEPT ![t] = to]

LkMin(a, b) == IF a <= b THEN a ELSE b

LkMax(a, b) == IF a >= b THEN a ELSE b

Present(entry) == entry.gen # 0

\* a new _SessionEntry (lines 488-497, 523-532)
NewEntry(valid, session) == [gen |-> lk_gens + 1, valid |-> valid, session |-> session, bind_backoff_s |-> 0, next_bind_refresh |-> 0, last_check |-> lk_now, since |-> lk_now]

\* lines 557-566: _check_all_sessions reads the clock and calls _check_one
\* for a valid entry; an entry that is not valid is not in the snapshot
MonCheck ==
  /\ lk_pc["monitor"] = "idle"
  /\ lk_owner = NoOwner
  /\ LkStep("monitor", "none")
  /\ LkGoto("monitor", IF Present(lk_entry) /\ lk_entry.valid THEN "C0" ELSE "E")
  /\ lk_loc' = [NoCheck EXCEPT !.now = lk_now]
  /\ lk_hit' = FALSE
  /\ UNCHANGED <<lk_owner, lk_entry, lk_now, lk_gens>>
  /\ UNCHANGED <<earlyVars, bindVars, tailVars>>

\* lines 583-601: does the session file exist
MonStat ==
  /\ lk_pc["monitor"] = "C0"
  /\ LkStep("monitor", "stat")
  /\ \E exists \in BOOLEAN : LkGoto("monitor", IF exists THEN "C1" ELSE "Cx")
  /\ UNCHANGED <<lk_owner, lk_entry, lk_loc, lk_now, lk_gens, lk_hit>>
  /\ UNCHANGED <<earlyVars, bindVars, tailVars>>

\* lines 589-596, 619-625, 631-638: the entry is marked invalid
MonMarkInvalid ==
  /\ lk_pc["monitor"] = "Cx"
  /\ lk_owner = NoOwner
  /\ LkStep("monitor", "none")
  /\ lk_entry' = IF Present(lk_entry) /\ lk_entry.valid
                 THEN [lk_entry EXCEPT !.valid = FALSE, !.last_check = lk_loc.now, !.since = lk_now]
                 ELSE lk_entry
  /\ LkGoto("monitor", "E")
  /\ UNCHANGED <<lk_owner, lk_loc, lk_now, lk_gens, lk_hit>>
  /\ UNCHANGED <<earlyVars, bindVars, tailVars>>

\* lines 606-617: take the lock; reload the session when the file changed
MonLock ==
  /\ lk_pc["monitor"] = "C1"
  /\ lk_owner = NoOwner
  /\ LkStep("monitor", "none")
  /\ IF ~(Present(lk_entry) /\ lk_entry.valid)
     THEN /\ LkGoto("monitor", "E")
          /\ UNCHANGED <<lk_owner, lk_loc>>
     ELSE \E file_changed \in BOOLEAN :
            /\ lk_loc' = [lk_loc EXCEPT !.file_changed = file_changed]
            /\ IF file_changed \/ ~lk_entry.session
               THEN lk_owner' = "monitor" /\ LkGoto("monitor", "C1load")
               ELSE lk_owner' = NoOwner /\ LkGoto("monitor", "C3")
  /\ UNCHANGED <<lk_entry, lk_now, lk_gens, lk_hit>>
  /\ UNCHANGED <<earlyVars, bindVars, tailVars>>

\* lines 611-615: load_project_session inside the with block
MonLoad ==
  /\ lk_pc["monitor"] = "C1load"
  /\ LkStep("monitor", "load")
  /\ \E session \in BOOLEAN :
       /\ lk_entry' = [lk_entry EXCEPT !.session = session]
       /\ LkGoto("monitor", IF session THEN "C3" ELSE "Cx")
  /\ lk_owner' = NoOwner
  /\ UNCHANGED <<lk_loc, lk_now, lk_gens, lk_hit>>
  /\ UNCHANGED <<earlyVars, bindVars, tailVars>>

\* lines 627-630: session.ensure_pane()
MonPane ==
  /\ lk_pc["monitor"] = "C3"
  /\ LkStep("monitor", "pane")
  /\ \E ok \in BOOLEAN : LkGoto("monitor", IF ok THEN "C4" ELSE "Cx")
  /\ UNCHANGED <<lk_owner, lk_entry, lk_loc, lk_now, lk_gens, lk_hit>>
  /\ UNCHANGED <<earlyVars, bindVars, tailVars>>

\* lines 640-648: is the refresh due
MonDue ==
  /\ lk_pc["monitor"] = "C4"
  /\ lk_owner = NoOwner
  /\ LkStep("monitor", "none")
  /\ IF ~(Present(lk_entry) /\ lk_entry.valid)
     THEN /\ LkGoto("monitor", "E")
          /\ UNCHANGED <<lk_entry, lk_loc>>
     ELSE IF lk_loc.now < lk_entry.next_bind_refresh /\ ~lk_loc.file_changed
     THEN /\ lk_entry' = [lk_entry EXCEPT !.last_check = lk_loc.now]
          /\ LkGoto("monitor", "E")
          /\ UNCHANGED lk_loc
     ELSE /\ lk_loc' = [lk_loc EXCEPT !.backoff = IF lk_entry.bind_backoff_s # 0 THEN lk_entry.bind_backoff_s ELSE RefreshInterval, !.gen = lk_entry.gen]
          /\ LkGoto("monitor", "C5")
          /\ UNCHANGED lk_entry
  /\ UNCHANGED <<lk_owner, lk_now, lk_gens, lk_hit>>
  /\ UNCHANGED <<earlyVars, bindVars, tailVars>>

\* lines 650-660: _refresh_claude_log_binding, outside the lock
MonRefresh ==
  /\ lk_pc["monitor"] = "C5"
  /\ LkStep("monitor", "refresh")
  /\ \E updated \in BOOLEAN : lk_loc' = [lk_loc EXCEPT !.updated = updated]
  /\ LkGoto("monitor", "C6")
  /\ UNCHANGED <<lk_owner, lk_entry, lk_now, lk_gens, lk_hit>>
  /\ UNCHANGED <<earlyVars, bindVars, tailVars>>

CommitGuard_Present(entry) == Present(entry)

\* lines 663-665: the commit applies to a valid entry only
CommitGuard(entry) == Present(entry) /\ entry.valid

NextBackoff_Uncapped(updated, backoff) == IF updated THEN RefreshInterval ELSE LkMax(RefreshInterval, backoff * 2)

\* lines 666-669
NextBackoff(updated, backoff) == IF updated THEN RefreshInterval ELSE LkMin(BackoffCap, LkMax(RefreshInterval, backoff * 2))

\* lines 662-670: take the lock and commit the result of the refresh
MonCommit ==
  /\ lk_pc["monitor"] = "C6"
  /\ lk_owner = NoOwner
  /\ LkStep("monitor", "none")
  /\ IF CommitGuard(lk_entry)
     THEN /\ lk_entry' = [lk_entry EXCEPT !.bind_backoff_s = NextBackoff(lk_loc.updated, lk_loc.backoff),
                                          !.next_bind_refresh = lk_loc.now + NextBackoff(lk_loc.updated, lk_loc.backoff)]
          /\ lk_owner' = "monitor"
          /\ LkGoto("monitor", "C6stat")
     ELSE /\ LkGoto("monitor", "E")
          /\ UNCHANGED <<lk_owner, lk_entry>>
  /\ UNCHANGED <<lk_loc, lk_now, lk_gens, lk_hit>>
  /\ UNCHANGED <<earlyVars, bindVars, tailVars>>

\* lines 671-675: session_file.stat() and last_check, still inside the lock
MonCommitStat ==
  /\ lk_pc["monitor"] = "C6stat"
  /\ LkStep("monitor", "stat")
  /\ lk_entry' = [lk_entry EXCEPT !.last_check = lk_loc.now]
  /\ lk_owner' = NoOwner
  /\ LkGoto("monitor", "E")
  /\ UNCHANGED <<lk_loc, lk_now, lk_gens, lk_hit>>
  /\ UNCHANGED <<earlyVars, bindVars, tailVars>>

\* lines 570-578: the pass ends by dropping an entry that is not valid and
\* was last checked more than 300 s before the pass began
MonEvict ==
  /\ lk_pc["monitor"] = "E"
  /\ lk_owner = NoOwner
  /\ LkStep("monitor", "none")
  /\ lk_entry' = IF Present(lk_entry) /\ ~lk_entry.valid /\ lk_loc.now - lk_entry.last_check > EvictAfter
                 THEN NoEntry
                 ELSE lk_entry
  /\ LkGoto("monitor", "idle")
  /\ UNCHANGED <<lk_owner, lk_loc, lk_now, lk_gens, lk_hit>>
  /\ UNCHANGED <<earlyVars, bindVars, tailVars>>

\* get_session, lines 449-452 and 469-470: take the lock, look the entry up
GetSession ==
  /\ lk_pc["client"] = "idle"
  /\ lk_owner = NoOwner
  /\ lk_gens < MaxGens
  /\ LkStep("client", "none")
  /\ lk_owner' = "client"
  /\ LkGoto("client", IF Present(lk_entry) THEN "G2" ELSE "G3")
  /\ UNCHANGED <<lk_entry, lk_loc, lk_now, lk_gens, lk_hit>>
  /\ UNCHANGED <<earlyVars, bindVars, tailVars>>

\* lines 453-468: exists and stat of the session file, inside the lock
ClientStat ==
  /\ lk_pc["client"] = "G2"
  /\ LkStep("client", "stat")
  /\ \E changed \in BOOLEAN :
       IF changed
       THEN LkGoto("client", "G3") /\ UNCHANGED lk_owner
       ELSE LkGoto("client", "idle") /\ lk_owner' = NoOwner
  /\ UNCHANGED <<lk_entry, lk_loc, lk_now, lk_gens, lk_hit>>
  /\ UNCHANGED <<earlyVars, bindVars, tailVars>>

\* the new entry replaces the one of the running refresh
Replaces == lk_pc["monitor"] \in {"C5", "C6"} /\ Present(lk_entry) /\ lk_entry.gen = lk_loc.gen

\* _load_and_cache, lines 502-513: load_project_session, inside the lock
ClientLoad ==
  /\ lk_pc["client"] = "G3"
  /\ LkStep("client", "load")
  /\ \E session \in BOOLEAN :
       IF session
       THEN /\ LkGoto("client", "G3p")
            /\ UNCHANGED <<lk_owner, lk_entry, lk_gens, lk_hit>>
       ELSE /\ lk_entry' = NewEntry(FALSE, FALSE)
            /\ lk_gens' = lk_gens + 1
            /\ lk_hit' = (lk_hit \/ Replaces)
            /\ lk_owner' = NoOwner
            /\ LkGoto("client", "idle")
  /\ UNCHANGED <<lk_loc, lk_now>>
  /\ UNCHANGED <<earlyVars, bindVars, tailVars>>

\* _load_and_cache, lines 515-534: ensure_pane, inside the lock, and store
ClientPane ==
  /\ lk_pc["client"] = "G3p"
  /\ LkStep("client", "pane")
  /\ \E ok \in BOOLEAN : lk_entry' = NewEntry(ok, TRUE)
  /\ lk_gens' = lk_gens + 1
  /\ lk_hit' = (lk_hit \/ Replaces)
  /\ lk_owner' = NoOwner
  /\ LkGoto("client", "idle")
  /\ UNCHANGED <<lk_loc, lk_now>>
  /\ UNCHANGED <<earlyVars, bindVars, tailVars>>

\* register_session: stat outside the lock, then store the entry
RegisterSession ==
  /\ lk_pc["client"] = "idle"
  /\ lk_owner = NoOwner
  /\ lk_gens < MaxGens
  /\ LkStep("client", "stat")
  /\ lk_entry' = NewEntry(TRUE, TRUE)
  /\ lk_gens' = lk_gens + 1
  /\ lk_hit' = (lk_hit \/ Replaces)
  /\ UNCHANGED <<lk_owner, lk_pc, lk_loc, lk_now>>
  /\ UNCHANGED <<earlyVars, bindVars, tailVars>>

\* invalidate
Invalidate ==
  /\ lk_pc["client"] = "idle"
  /\ lk_owner = NoOwner
  /\ Present(lk_entry) /\ lk_entry.valid
  /\ LkStep("client", "none")
  /\ lk_entry' = [lk_entry EXCEPT !.valid = FALSE, !.since = lk_now]
  /\ lk_hit' = (lk_hit \/ Replaces)
  /\ UNCHANGED <<lk_owner, lk_pc, lk_loc, lk_now, lk_gens>>
  /\ UNCHANGED <<earlyVars, bindVars, tailVars>>

\* remove
Remove ==
  /\ lk_pc["client"] = "idle"
  /\ lk_owner = NoOwner
  /\ Present(lk_entry)
  /\ LkStep("client", "none")
  /\ lk_entry' = NoEntry
  /\ lk_hit' = (lk_hit \/ Replaces)
  /\ UNCHANGED <<lk_owner, lk_pc, lk_loc, lk_now, lk_gens>>
  /\ UNCHANGED <<earlyVars, bindVars, tailVars>>

LkTick ==
  /\ lk_now < MaxLkNow
  /\ lk_now' = lk_now + 1
  /\ lk_step' = NoStep
  /\ UNCHANGED <<lk_owner, lk_entry, lk_pc, lk_loc, lk_gens, lk_hit>>
  /\ UNCHANGED <<earlyVars, bindVars, tailVars>>

LockInit == InitCore({"t1"}, MaxEvents) /\ CodecIdle /\ MkIdle /\ OcIdle /\ RegIdle /\ LockIdle /\ BindOff /\ PjOff /\ MailOff /\ LastOff

LockSteps ==
  \/ MonCheck
  \/ MonStat
  \/ MonMarkInvalid
  \/ MonLock
  \/ MonLoad
  \/ MonPane
  \/ MonDue
  \/ MonRefresh
  \/ MonCommit
  \/ MonCommitStat
  \/ MonEvict
  \/ GetSession
  \/ ClientStat
  \/ ClientLoad
  \/ ClientPane
  \/ RegisterSession
  \/ Invalidate
  \/ Remove

LockNext ==
  \/ LockSteps
  \/ LkTick

LockSpec == LockInit /\ [][LockNext]_vars

\* the same registry over a time long enough for an eviction
EvictTick ==
  /\ lk_now < MaxEvictNow
  /\ lk_now' = lk_now + 1
  /\ lk_step' = NoStep
  /\ UNCHANGED <<lk_owner, lk_entry, lk_pc, lk_loc, lk_gens, lk_hit>>
  /\ UNCHANGED <<earlyVars, bindVars, tailVars>>

EvictNext ==
  \/ LockSteps
  \/ EvictTick

EvictSpec == LockInit /\ [][EvictNext]_vars

\* C22: no step of the registry that loads the session file, stats or reads
\* a file, or probes or re-resolves the pane is taken by a thread that
\* holds the registry mutex.
Cex_C22_NoIoUnderLock == lk_step.io # "none" => ~lk_step.locked

\* C30: when the entry of a running refresh was invalidated or removed, the
\* commit after the refresh leaves that entry as it is, and a commit never
\* creates an entry and never changes a valid flag.
Thm_C30_CommitSkipsInvalidEntry == [][(lk_pc["monitor"] \in {"C6", "C6stat"} /\ lk_pc'["monitor"] # lk_pc["monitor"]) => (/\ lk_entry'.gen = lk_entry.gen /\ lk_entry'.valid = lk_entry.valid /\ ((lk_hit /\ lk_entry.gen = lk_loc.gen) => lk_entry' = lk_entry))]_vars

Wit_C30_InvalidatedDuringRefresh == lk_step.by = "monitor" /\ lk_step.at = "C6" /\ lk_hit /\ lk_entry.gen = lk_loc.gen /\ ~lk_entry.valid

\* the backoff a due check reads from an entry (line 648)
EffBackoff(entry) == IF entry.bind_backoff_s # 0 THEN entry.bind_backoff_s ELSE RefreshInterval

\* the monitor commits a refresh in this step
Commits == lk_pc["monitor"] = "C6" /\ lk_pc'["monitor"] = "C6stat"

\* C31 as stated: a commit sets bind_backoff_s to the base interval after a
\* successful refresh and to min(600, max(base, 2 x the bind_backoff_s the
\* entry had)) after a failed one, and next_bind_refresh to now + bind_backoff_s.
Cex_C31_BackoffFromPrevious == [][Commits => (/\ lk_entry'.bind_backoff_s = (IF lk_loc.updated THEN RefreshInterval ELSE LkMin(BackoffCap, LkMax(RefreshInterval, 2 * lk_entry.bind_backoff_s))) /\ lk_entry'.next_bind_refresh = lk_loc.now + lk_entry'.bind_backoff_s)]_vars

\* C31: a commit sets bind_backoff_s to the base interval after a successful
\* refresh and to min(600, max(base, 2 x b)) after a failed one, where b is
\* the backoff read when the refresh was found due (the bind_backoff_s of the
\* entry checked then, the base interval when that was 0), and
\* next_bind_refresh to now + bind_backoff_s; a failed refresh never lowers
\* the backoff of the entry it checked, and the backoff stays within
\* base..600 s.
Thm_C31_BackoffFromEffective == [][Commits => (/\ lk_entry'.bind_backoff_s = (IF lk_loc.updated THEN RefreshInterval ELSE LkMin(BackoffCap, LkMax(RefreshInterval, 2 * (IF lk_entry.gen = lk_loc.gen THEN EffBackoff(lk_entry) ELSE lk_loc.backoff)))) /\ lk_entry'.next_bind_refresh = lk_loc.now + lk_entry'.bind_backoff_s /\ lk_entry'.bind_backoff_s \in RefreshInterval..BackoffCap /\ ((~lk_loc.updated /\ lk_entry.gen = lk_loc.gen) => lk_entry'.bind_backoff_s >= lk_entry.bind_backoff_s))]_vars

Wit_C31_BackoffAtCap == lk_step.by = "monitor" /\ lk_step.at = "C6" /\ lk_pc["monitor"] = "C6stat" /\ ~lk_loc.updated /\ lk_loc.backoff = BackoffCap /\ lk_entry.bind_backoff_s = BackoffCap

\* the monitor drops the entry in this step
Evicts == lk_pc["monitor"] = "E" /\ lk_pc'["monitor"] = "idle" /\ Present(lk_entry) /\ ~Present(lk_entry')

\* C32: the monitor removes an entry only if it is not valid and has not been
\* valid for more than 300 s.
Cex_C32_EvictsOnlyLongInvalid == [][Evicts => (~lk_entry.valid /\ lk_now - lk_entry.since > EvictAfter)]_vars

\* ----------------------------------------------------------- project ids
\* A string is kept as the list of its components, the pieces between its
\* separators: "/mnt/c" is <<"", "mnt", "c">>, "//" is <<"", "", "">>, the
\* empty string is <<"">>.  sep is the separator the string is written with.
Comps == {"", ".", "..", "mnt", "c", "C:", "usr"}
Letters == {"c"}
Seps == {"/", "\\"}
CwdParts == <<"", "usr">>

Strs == [sep : Seps, parts : UNION {[1..n -> Comps] : n \in 1..MaxParts}]

Lower(c) == IF c = "C:" THEN "c:" ELSE c

DriveOf(c) == IF c = "c" THEN "c:" ELSE c

StartsWithSlash(parts) == Len(parts) >= 2 /\ parts[1] = ""

StartsWith2(parts) == Len(parts) >= 3 /\ parts[1] = "" /\ parts[2] = ""

StartsWith3(parts) == Len(parts) >= 4 /\ parts[1] = "" /\ parts[2] = "" /\ parts[3] = ""

\* _WIN_DRIVE_RE: a drive letter and a colon, then a separator or the end
WinDriveRe(parts) == parts[1] \in {"c:", "C:"}

\* _MNT_DRIVE_RE: /mnt/<letter>/<rest>
MntDriveRe(parts) == Len(parts) >= 4 /\ parts[1] = "" /\ parts[2] = "mnt" /\ parts[3] \in Letters

\* _MSYS_DRIVE_RE: /<letter>/<rest>
MsysDriveRe(parts) == Len(parts) >= 3 /\ parts[1] = "" /\ parts[2] \in Letters

RECURSIVE NormComps(_, _, _)
\* posixpath.normpath, the loop over the components
NormComps(comps, initial, acc) ==
  IF comps = <<>> THEN acc
  ELSE LET c == Head(comps)
       IN IF c \in {"", "."} THEN NormComps(Tail(comps), initial, acc)
          ELSE IF c # ".." \/ (initial = 0 /\ acc = <<>>) \/ (acc # <<>> /\ acc[Len(acc)] = "..")
          THEN NormComps(Tail(comps), initial, Append(acc, c))
          ELSE IF acc # <<>>
          THEN NormComps(Tail(comps), initial, SubSeq(acc, 1, Len(acc) - 1))
          ELSE NormComps(Tail(comps), initial, acc)

\* posixpath.normpath
NormPath(parts) ==
  IF parts = <<"">> THEN <<".">>
  ELSE LET initial == IF ~StartsWithSlash(parts) THEN 0
                      ELSE IF StartsWith2(parts) /\ ~StartsWith3(parts) THEN 2 ELSE 1
           new == NormComps(parts, initial, <<>>)
       IN IF initial = 0
          THEN (IF new = <<>> THEN <<".">> ELSE new)
          ELSE [i \in 1..initial |-> ""] \o (IF new = <<>> THEN <<"">> ELSE new)

RECURSIVE LStrip(_)
\* str.lstrip("/")
LStrip(parts) == IF StartsWithSlash(parts) THEN LStrip(Tail(parts)) ELSE parts

\* lines 37-48: str((Path.cwd() / Path(raw)).absolute()); pathlib drops the
\* empty and the "." components of a path written with "/"
Absolutize(str) == CwdParts \o (IF str.sep = "/" THEN SelectSeq(str.parts, LAMBDA c : c \notin {"", "."}) ELSE str.parts)

\* lines 52-65: the WSL and MSYS mount paths become drive paths
MapDrive(parts, msys) ==
  IF MntDriveRe(parts) THEN <<DriveOf(parts[3])>> \o SubSeq(parts, 4, Len(parts))
  ELSE IF MsysDriveRe(parts) /\ msys THEN <<DriveOf(parts[2])>> \o SubSeq(parts, 3, Len(parts))
  ELSE parts

\* lines 67-73: separators and dot segments are collapsed
Collapse(parts) ==
  IF StartsWith2(parts)
  THEN <<"", "">> \o LStrip(NormPath(SubSeq(parts, 3, Len(parts))))
  ELSE NormPath(parts)

\* lines 75-77: the drive letter is lowered
LowerDrive(parts) == IF WinDriveRe(parts) THEN [parts EXCEPT ![1] = Lower(parts[1])] ELSE parts

\* normalize_work_dir
NormalizeWorkDir(str, msys) ==
  IF str.parts = <<"">> THEN [sep |-> "/", parts |-> <<"">>]
  ELSE LET is_abs == StartsWithSlash(str.parts) \/ WinDriveRe(str.parts)
           raw == IF is_abs THEN str.parts ELSE Absolutize(str)
       IN [sep |-> "/", parts |-> LowerDrive(Collapse(MapDrive(raw, msys)))]

NormalizeOnce ==
  /\ nm_in # NoStr
  /\ nm_once = NoStr
  /\ nm_once' = NormalizeWorkDir(nm_in, nm_msys)
  /\ UNCHANGED <<pj_ccb, pj_legacy, pj_git, pj_env, pj_res, nm_msys, nm_in, nm_twice>>
  /\ UNCHANGED <<earlyVars, bindVars, lockVars, mailVars, lastVars>>

NormalizeTwice ==
  /\ nm_once # NoStr
  /\ nm_twice = NoStr
  /\ nm_twice' = NormalizeWorkDir(nm_once, nm_msys)
  /\ UNCHANGED <<pj_ccb, pj_legacy, pj_git, pj_env, pj_res, nm_msys, nm_in, nm_once>>
  /\ UNCHANGED <<earlyVars, bindVars, lockVars, mailVars, lastVars>>

NormInit ==
  /\ InitCore({"t1"}, MaxEvents)
  /\ CodecIdle /\ MkIdle /\ OcIdle /\ RegIdle /\ BindOff /\ LockOff /\ MailOff /\ LastOff
  /\ pj_ccb = {} /\ pj_legacy = {} /\ pj_git = {}
  /\ pj_env = EnvUnset
  /\ pj_res = NoRes
  /\ nm_msys \in BOOLEAN
  /\ nm_in \in Strs
  /\ nm_once = NoStr
  /\ nm_twice = NoStr

NormNext ==
  \/ NormalizeOnce
  \/ NormalizeTwice

NormSpec == NormInit /\ [][NormNext]_vars

\* C26: normalize_work_dir applied to its own result gives that result.
Cex_C26_NormalizeIdempotent == nm_twice # NoStr => nm_twice = nm_once

\* -- the directories are the prefixes of one path, /mnt/c/usr/usr/...,
\* named by their depth; 0 is the file system root
Dirs == 0..MaxDepth

ChainName(i) == IF i = 1 THEN "mnt" ELSE IF i = 2 THEN "c" ELSE "usr"

DirStr(k) == [sep |-> "/", parts |-> IF k = 0 THEN <<"", "">> ELSE <<"">> \o [i \in 1..k |-> ChainName(i)]]

AtMostOne(S) == {{}} \cup {{x} : x \in S}

\* _find_git_root: the nearest directory at or above d that contains .git
FindGitRoot(d) ==
  IF \E k \in 0..d : k \in pj_git
  THEN CHOOSE k \in 0..d : k \in pj_git /\ \A j \in 0..d : j \in pj_git => j <= k
  ELSE NoDir

IsAnchor_CcbOnly(dir) == dir \in pj_ccb

\* lines 131-136: the directory contains .ccb or .ccb_config
IsAnchor(dir) == dir \in pj_ccb \cup pj_legacy

RECURSIVE FindFrom(_, _, _)
\* lines 130-154: the loop of _find_ccb_config_root
FindFrom(current, level, git_root) ==
  IF IsAnchor(current) THEN current
  ELSE IF git_root # NoDir /\ current = git_root THEN NoDir
  ELSE IF current = 0 THEN NoDir
  ELSE IF git_root = NoDir /\ level + 1 >= MaxLevels THEN NoDir
  ELSE FindFrom(current - 1, IF git_root = NoDir THEN level + 1 ELSE level, git_root)

\* _find_ccb_config_root
FindCcbConfigRoot(d) == FindFrom(d, 0, FindGitRoot(d))

\* hashlib.sha256(...).hexdigest(), taken as injective
Sha256(str) == <<"sha256">> \o str.parts

\* compute_ccb_project_id
ComputeCcbProjectId(d) ==
  LET found == FindCcbConfigRoot(d)
      base == IF found = NoDir THEN d ELSE found
      norm == NormalizeWorkDir(DirStr(base), nm_msys)
  IN Sha256(IF norm.parts = <<"">> THEN NormalizeWorkDir(DirStr(d), nm_msys) ELSE norm)

ComputeProjectId ==
  /\ pj_res = NoRes
  /\ \E d \in Dirs : pj_res' = [dir |-> d, id |-> ComputeCcbProjectId(d)]
  /\ UNCHANGED <<pj_ccb, pj_legacy, pj_git, pj_env, nm_msys, nm_in, nm_once, nm_twice>>
  /\ UNCHANGED <<earlyVars, bindVars, lockVars, mailVars, lastVars>>

ProjectInit ==
  /\ InitCore({"t1"}, MaxEvents)
  /\ CodecIdle /\ MkIdle /\ OcIdle /\ RegIdle /\ BindOff /\ LockOff /\ MailOff /\ LastOff
  /\ pj_ccb \in AtMostOne(Dirs)
  /\ pj_legacy \in AtMostOne(Dirs)
  /\ pj_git \in AtMostOne(Dirs)
  /\ pj_env \in {EnvUnset, EnvMissing} \cup Dirs
  /\ pj_res = NoRes
  /\ nm_msys = FALSE
  /\ nm_in = NoStr /\ nm_once = NoStr /\ nm_twice = NoStr

ProjectNext == ComputeProjectId

ProjectSpec == ProjectInit /\ [][ProjectNext]_vars

\* the anchor a is reached by the upward search from d
WithinBound(d, a) == a <= d /\ (IF FindGitRoot(d) = NoDir THEN d - a < MaxLevels ELSE a >= FindGitRoot(d))

\* a is the nearest directory at or above d that is in S
Nearest(d, a, S) == a \in S /\ a <= d /\ \A k \in S : k <= d => k <= a

Cex_C24_SubdirIdDiffers == \A r \in Dirs : (pj_res # NoRes /\ pj_legacy = {r} /\ pj_ccb = {} /\ r < pj_res.dir) => pj_res.id # ComputeCcbProjectId(r)

\* C25: with CCB_PROJECT_ROOT naming the directory r, r and every directory
\* below r have the same project id; with an invalid CCB_PROJECT_ROOT the id
\* is not empty.
Cex_C25_EnvRootGivesOneId == pj_res # NoRes => ((pj_env \in Dirs /\ pj_env <= pj_res.dir => pj_res.id = ComputeCcbProjectId(pj_env)) /\ (pj_env = EnvMissing => pj_res.id # <<>>))

\* ------------------------------------------------------- the SMTP sender
MailFrame == UNCHANGED <<earlyVars, bindVars, lockVars, pjVars, lastVars>>

\* send_reply is called, lines 137-146 and 199-200; _retry_on_failure
\* starts, lines 45-46
MlCall ==
  /\ ml_pc = "idle"
  /\ ml_sends < MaxSends
  /\ ml_sends' = ml_sends + 1
  /\ ml_pc' = "try"
  /\ ml_attempt' = 0
  /\ ml_delay' = RetryDelay
  /\ ml_tries' = 0
  /\ ml_waits' = <<>>
  /\ ml_ret' = NoSend
  /\ UNCHANGED <<ml_conn, ml_sent>>
  /\ MailFrame

MayRetry_OneLess(attempt, max_retries) == attempt + 1 < max_retries

\* line 53: attempt < max_retries
MayRetry(attempt, max_retries) == attempt < max_retries

\* lines 48-50 and 162-165: _send is called and connects when there is no
\* connection
MlConnect ==
  /\ ml_pc = "try"
  /\ ml_tries' = ml_tries + 1
  /\ \E ok \in BOOLEAN :
       IF ml_conn \/ ok
       THEN ml_conn' = TRUE /\ ml_pc' = "send"
       ELSE ml_conn' = FALSE /\ ml_pc' = "except"
  /\ UNCHANGED <<ml_attempt, ml_delay, ml_waits, ml_ret, ml_sends, ml_sent>>
  /\ MailFrame

\* lines 167-192: the message is built and sent
MlSendMessage ==
  /\ ml_pc = "send"
  /\ \E ok \in BOOLEAN :
       IF ok
       THEN /\ ml_ret' = [called |-> TRUE, ok |-> TRUE]
            /\ ml_sent' = ml_sent + 1
            /\ ml_pc' = "idle"
       ELSE /\ ml_pc' = "except"
            /\ UNCHANGED <<ml_ret, ml_sent>>
  /\ UNCHANGED <<ml_conn, ml_attempt, ml_delay, ml_tries, ml_waits, ml_sends>>
  /\ MailFrame

\* lines 51-59 and 194-197: _send raised; _on_retry resets the connection
MlExcept ==
  /\ ml_pc = "except"
  /\ IF MayRetry(ml_attempt, MaxRetriesDefault)
     THEN ml_conn' = FALSE /\ ml_pc' = "sleep"
     ELSE ml_pc' = "raise" /\ UNCHANGED ml_conn
  /\ UNCHANGED <<ml_attempt, ml_delay, ml_tries, ml_waits, ml_ret, ml_sends, ml_sent>>
  /\ MailFrame

\* lines 56-57 and 48: sleep, double the delay, next attempt
MlSleep ==
  /\ ml_pc = "sleep"
  /\ ml_waits' = Append(ml_waits, ml_delay)
  /\ ml_delay' = ml_delay * 2
  /\ ml_attempt' = ml_attempt + 1
  /\ ml_pc' = "try"
  /\ UNCHANGED <<ml_conn, ml_tries, ml_ret, ml_sends, ml_sent>>
  /\ MailFrame

\* lines 201-203: send_reply catches what _retry_on_failure raised
MlCatch ==
  /\ ml_pc = "raise"
  /\ ml_conn' = FALSE
  /\ ml_ret' = [called |-> TRUE, ok |-> FALSE]
  /\ ml_pc' = "idle"
  /\ UNCHANGED <<ml_attempt, ml_delay, ml_tries, ml_waits, ml_sends, ml_sent>>
  /\ MailFrame

\* disconnect, or the server closes the connection between two replies
MlDisconnect ==
  /\ ml_pc = "idle"
  /\ ml_conn
  /\ ml_conn' = FALSE
  /\ UNCHANGED <<ml_pc, ml_attempt, ml_delay, ml_tries, ml_waits, ml_ret, ml_sends, ml_sent>>
  /\ MailFrame

MailInit ==
  /\ InitCore({"t1"}, MaxEvents)
  /\ CodecIdle /\ MkIdle /\ OcIdle /\ RegIdle /\ BindOff /\ LockOff /\ PjOff /\ LastOff
  /\ ml_pc = "idle"
  /\ ml_attempt = 0
  /\ ml_delay = 0
  /\ ml_conn \in BOOLEAN
  /\ ml_tries = 0
  /\ ml_waits = <<>>
  /\ ml_ret = NoSend
  /\ ml_sends = 0
  /\ ml_sent = 0

MailNext ==
  \/ MlCall
  \/ MlConnect
  \/ MlSendMessage
  \/ MlExcept
  \/ MlSleep
  \/ MlCatch
  \/ MlDisconnect

MailSpec == MailInit /\ [][MailNext]_vars

\* every attempt of the latest send_reply failed
GaveUp == ml_pc = "raise" \/ (ml_ret.called /\ ~ml_ret.ok)

\* send_reply returned (False, error)
Failed == ml_pc = "idle" /\ ml_ret.called /\ ~ml_ret.ok

\* C27: a reply whose send fails every time is attempted 3 times, with
\* waits of 2 s, 4 s and 8 s between the attempts, and send_reply returns
\* (False, error).
Cex_C27_ThreeAttempts == GaveUp => (ml_tries = 3 /\ ml_waits = <<2, 4, 8>>)

\* C27, amended: it is attempted 4 times, the first attempt and 3 retries,
\* with waits of 2 s, 4 s and 8 s between the attempts, and send_reply
\* returns (False, error).
Thm_C27_FourAttempts == GaveUp => (ml_tries = 4 /\ ml_waits = <<2, 4, 8>>)

Wit_C27_GaveUp == Failed /\ ml_tries = 4

\* ------------------------------------- the OpenCode reader, read by read
\* One pass of the loop of _read_since reads the messages twice: for the
\* reply (line 1141) and again for the baseline of the cursor (line 1163).
\* OpenCode may write between the two reads.
OcFrame == UNCHANGED <<coreVars, codecVars, mkVars, regVars, lateVars>>

\* lines 1094-1159: the pass up to the reply scan
PollScan ==
  /\ oc_pc = "loop"
  /\ LET st1 == FollowSession(oc_state, oc_session_id, oc_sid)
         changed == oc_updated # PrevUpdated(st1)
         forced == oc_block /\ ~changed /\ oc_now - oc_last_forced >= ForceReadPolls
         should_scan == changed \/ forced
         r == FindNewReply(oc_msgs, st1, oc_now)
     IN IF should_scan /\ r.reply # NoReply
        THEN /\ OcReturn(r.reply,
                         [session_id |-> oc_sid,
                          session_updated |-> oc_updated,
                          assistant_count |-> r.assistant_count,
                          last_assistant_id |-> r.last_assistant_id,
                          last_assistant_completed |-> r.last_assistant_completed,
                          last_assistant_has_done |-> r.last_assistant_has_done])
             /\ oc_msgs' = ResetFresh(oc_msgs)
        ELSE IF should_scan
        THEN /\ oc_state' = [st1 EXCEPT !.session_updated = oc_updated]
             /\ oc_session_id' = oc_sid
             /\ oc_last_forced' = IF forced THEN oc_now ELSE oc_last_forced
             /\ oc_pc' = "base"
             /\ UNCHANGED <<oc_msgs, oc_block, oc_deadline, oc_ret, oc_seen>>
        ELSE /\ UNCHANGED oc_msgs
             /\ IF ~oc_block
                THEN OcReturn(NoReply, st1)
                ELSE /\ oc_state' = st1
                     /\ oc_session_id' = oc_sid
                     /\ oc_pc' = "sleep"
                     /\ UNCHANGED <<oc_block, oc_deadline, oc_last_forced, oc_ret, oc_seen>>
  /\ oc_det' = NoDetect
  /\ UNCHANGED <<oc_sid, oc_updated, oc_now>>
  /\ OcFrame

\* lines 1160-1184: the messages are read again for the baseline
PollBaseline ==
  /\ oc_pc = "base"
  /\ IF ~oc_block
     THEN OcReturn(NoReply, Baseline(oc_state, oc_state.session_updated, oc_msgs))
     ELSE /\ oc_state' = Baseline(oc_state, oc_state.session_updated, oc_msgs)
          /\ oc_pc' = "sleep"
          /\ UNCHANGED <<ocLocals, oc_ret, oc_seen>>
  /\ oc_det' = NoDetect
  /\ UNCHANGED <<ocStore, oc_now>>
  /\ OcFrame

\* lines 1186-1188: sleep one poll interval, then test the deadline; when
\* the clock is at MaxOcNow the times of the call are moved back instead
PollWake ==
  /\ oc_pc = "sleep"
  /\ LET shift == IF oc_now < MaxOcNow THEN 0 ELSE 1
     IN /\ oc_now' = oc_now + 1 - shift
        /\ IF oc_now + 1 >= oc_deadline
           THEN OcReturn(NoReply, oc_state)
           ELSE /\ oc_pc' = "loop"
                /\ oc_deadline' = oc_deadline - shift
                /\ oc_last_forced' = oc_last_forced - shift
                /\ UNCHANGED <<oc_block, oc_session_id, oc_state, oc_ret, oc_seen>>
  /\ oc_det' = NoDetect
  /\ UNCHANGED ocStore
  /\ OcFrame

\* plain text parts of a message are written before its time.completed
PollWriteText == oc_msgs # <<>> /\ LastMsg(oc_msgs).completed = None /\ OcWriteText /\ LastMsg(oc_msgs').text = "plain"

\* the caller waits again and again while OpenCode answers one request
PollNext ==
  \/ OcCall(TRUE)
  \/ PollScan
  \/ PollBaseline
  \/ PollWake
  \/ OcNewMessage({"R1"}, {FALSE})
  \/ PollWriteText
  \/ OcComplete

\* the reader thread keeps running; OpenCode may stop writing at any time
PollSpec == OpenCodeInit /\ [][PollNext]_vars /\ WF_vars(OcCall(TRUE)) /\ WF_vars(PollScan) /\ WF_vars(PollBaseline) /\ WF_vars(PollWake)

\* the latest message is complete, has text, and was written after the
\* latest reply was returned
PendingReply == oc_msgs # <<>> /\ LastMsg(oc_msgs).completed # None /\ LastMsg(oc_msgs).text # "none" /\ LastMsg(oc_msgs).fresh

\* C28: a reply that completes after capture_state, and stays the latest
\* message of the session, is returned by wait_for_message at some later
\* time, whenever the storage is written.
Cex_C28_CompletedReplyReturned == PendingReply ~> ~PendingReply

\* one caller keeps the cursor the reader returns and never takes a new one,
\* while OpenCode moves to a newer session
SwitchNext ==
  \/ \E block \in BOOLEAN : OcCall(block)
  \/ OcIterate
  \/ OcWake
  \/ OcNewMessage({"R1"}, {FALSE})
  \/ OcWriteText
  \/ OcComplete
  \/ OcNewSession
  \/ OcTick

SwitchSpec == OpenCodeInit /\ [][SwitchNext]_vars

\* the reply cursor st tells of the messages msgs only
CursorWithin(st, msgs) ==
  /\ st.assistant_count <= Len(msgs)
  /\ (st.last_assistant_id = NoId \/ \E i \in 1..Len(msgs) : msgs[i].id = st.last_assistant_id)
  /\ (st.last_assistant_id = NoId => (st.last_assistant_completed = None /\ ~st.last_assistant_has_done))

SgThreads == {"a1", "a2", "a3"}
NoInstance == 0
SgIdle == [pc |-> "idle", self |-> NoInstance, ret |-> NoInstance]

SgGoto(t, to) == [singleton.th EXCEPT ![t].pc = to]

SingletonFrame == UNCHANGED <<earlyVars, bindVars, lockVars, pjVars, mailVars, pane, xfer, ask, poller, daemon>>

\* line 1003: if _session_registry is None
SgTest(t) ==
  /\ singleton.th[t].pc = "idle"
  /\ singleton' = [singleton EXCEPT !.th = SgGoto(t, IF singleton.registry = NoInstance THEN "new" ELSE "ret")]
  /\ SingletonFrame

\* line 1004: _session_registry = LaskdSessionRegistry()
SgCreate(t) ==
  /\ singleton.th[t].pc = "new"
  /\ singleton' = [singleton EXCEPT !.registry = Len(singleton.monitors) + 1, !.monitors = Append(singleton.monitors, 0), !.th = SgGoto(t, "start")]
  /\ SingletonFrame

\* lines 1005 and 438: start_monitor of the instance the global names now
SgStartMonitor(t) ==
  /\ singleton.th[t].pc = "start"
  /\ singleton' = [singleton EXCEPT !.th = [singleton.th EXCEPT ![t].self = singleton.registry, ![t].pc = IF singleton.monitors[singleton.registry] = 0 THEN "spawn" ELSE "ret"]]
  /\ SingletonFrame

\* lines 439-441: the monitor thread is created and started
SgSpawn(t) ==
  /\ singleton.th[t].pc = "spawn"
  /\ singleton' = [singleton EXCEPT !.monitors[singleton.th[t].self] = @ + 1, !.th = SgGoto(t, "ret")]
  /\ SingletonFrame

\* line 1006: return _session_registry
SgReturn(t) ==
  /\ singleton.th[t].pc = "ret"
  /\ singleton' = [singleton EXCEPT !.th = [singleton.th EXCEPT ![t].ret = singleton.registry, ![t].pc = "idle"]]
  /\ SingletonFrame

SingletonInit ==
  /\ InitCore({"t1"}, MaxEvents)
  /\ CodecIdle /\ MkIdle /\ OcIdle /\ RegIdle /\ BindOff /\ LockOff /\ PjOff /\ MailOff
  /\ singleton = [registry |-> NoInstance, monitors |-> <<>>, th |-> [t \in SgThreads |-> SgIdle]]
  /\ pane = Unused /\ xfer = Unused /\ ask = Unused /\ poller = Unused /\ daemon = Unused

SingletonNext ==
  \/ \E t \in SgThreads : SgTest(t)
  \/ \E t \in SgThreads : SgCreate(t)
  \/ \E t \in SgThreads : SgStartMonitor(t)
  \/ \E t \in SgThreads : SgSpawn(t)
  \/ \E t \in SgThreads : SgReturn(t)

SingletonSpec == SingletonInit /\ [][SingletonNext]_vars

\* the instances that are in use: named by the global, held by a caller, or
\* run by a monitor thread
LiveInstances == {i \in 1..Len(singleton.monitors) : singleton.registry = i \/ singleton.monitors[i] > 0 \/ (\E t \in SgThreads : singleton.th[t].ret = i)}

RECURSIVE SumSeq(_)
SumSeq(q) == IF q = <<>> THEN 0 ELSE Head(q) + SumSeq(Tail(q))

\* C33: whatever calls of get_session_registry are made, by whatever
\* threads, at most one registry instance is in use and at most one monitor
\* thread has been started.
Cex_C33_OneRegistryOneMonitor == Cardinality(LiveInstances) <= 1 /\ SumSeq(singleton.monitors) <= 1

\* ------------------------------------------------ the pane of a session
\* ClaudeProjectSession.ensure_pane.  pane.data is self.data, pane.writes
\* counts the writes of the session file and pane.file is the pane id the
\* file holds; pane.last describes the latest call: what it returned, the
\* pane ids for which is_alive returned True during the call, and whether
\* the pane came from the title marker.
PaneIds == {"%1", "%2"}
NoPane == ""
PaneData == [pane_id : PaneIds \cup {NoPane}, tmux_session : {NoPane, "%1"}, terminal : {"tmux", "wezterm"}, pane_title_marker : {"", "CCB-claude"}]
NoPaneCall == [called |-> FALSE, ok |-> FALSE, ret |-> NoPane, live |-> {}, via |-> "none"]

PaneFrame == UNCHANGED <<earlyVars, bindVars, lockVars, pjVars, mailVars, singleton, xfer, ask, poller, daemon>>

\* lines 133-137: the property pane_id
PaneIdOf(data) == IF data.pane_id # NoPane THEN data.pane_id ELSE IF data.terminal = "tmux" THEN data.tmux_session ELSE NoPane

\* line 172: pane_id and backend.is_alive(pane_id)
StoredLive(stored, alive) == stored # NoPane /\ alive

ResolvedLive_NoProbe(resolved, alive) == resolved # NoPane

\* line 180: resolved and backend.is_alive(str(resolved))
ResolvedLive(resolved, alive) == resolved # NoPane /\ alive

\* lines 166-187.  alive1 and alive2 are the answers of the two is_alive
\* calls, resolved is what find_pane_by_title_marker returns (NoPane for
\* None), has_resolver tells whether the backend has that method (the
\* backends of terminal.py as given do not define it, other callers use it
\* unconditionally), and write_ok whether safe_write_session succeeds.
EnsurePaneCall ==
  /\ pane.calls < MaxPaneCalls
  /\ \E alive1 \in BOOLEAN, alive2 \in BOOLEAN, resolved \in PaneIds \cup {NoPane}, has_resolver \in BOOLEAN, write_ok \in BOOLEAN :
       LET stored == PaneIdOf(pane.data)
           live1 == IF stored # NoPane /\ alive1 THEN {stored} ELSE {}
           live2 == IF resolved # NoPane /\ alive2 THEN {resolved} ELSE {}
       IN IF StoredLive(stored, alive1)
          THEN pane' = [pane EXCEPT !.calls = @ + 1, !.last = [called |-> TRUE, ok |-> TRUE, ret |-> stored, live |-> live1, via |-> "stored"]]
          ELSE IF pane.data.pane_title_marker # "" /\ has_resolver /\ ResolvedLive(resolved, alive2)
          THEN pane' = [pane EXCEPT !.calls = @ + 1,
                                    !.data.pane_id = resolved,
                                    !.writes = IF write_ok THEN @ + 1 ELSE @,
                                    !.file = IF write_ok THEN resolved ELSE @,
                                    !.last = [called |-> TRUE, ok |-> TRUE, ret |-> resolved, live |-> live1 \cup live2, via |-> "marker"]]
          ELSE pane' = [pane EXCEPT !.calls = @ + 1, !.last = [called |-> TRUE, ok |-> FALSE, ret |-> NoPane, live |-> live1 \cup (IF pane.data.pane_title_marker # "" /\ has_resolver THEN live2 ELSE {}), via |-> "none"]]
  /\ PaneFrame

\* the session file was loaded into data; its pane id is the one of data
PaneInit ==
  /\ InitCore({"t1"}, MaxEvents)
  /\ CodecIdle /\ MkIdle /\ OcIdle /\ RegIdle /\ BindOff /\ LockOff /\ PjOff /\ MailOff
  /\ \E data \in PaneData : pane = [data |-> data, file |-> data.pane_id, writes |-> 0, calls |-> 0, last |-> NoPaneCall]
  /\ singleton = Unused /\ xfer = Unused /\ ask = Unused /\ poller = Unused /\ daemon = Unused

PaneNext == EnsurePaneCall

PaneSpec == PaneInit /\ [][PaneNext]_vars

\* C34: a call of ensure_pane returns success only with a pane id for which
\* is_alive returned True during that call; it writes the session file only
\* when it returns a pane found through the title marker and probed alive,
\* and never when the stored pane is alive or when it returns failure.
Thm_C34_EnsurePaneFrame == [][pane'.calls # pane.calls => (/\ (pane'.last.ok => pane'.last.ret \in pane'.last.live) /\ ((pane'.writes # pane.writes \/ pane'.file # pane.file) => (pane'.last.ok /\ pane'.last.via = "marker" /\ pane'.last.ret \in pane'.last.live /\ pane'.file = pane'.last.ret)) /\ ((pane'.last.via = "stored" \/ ~pane'.last.ok) => (pane'.writes = pane.writes /\ pane'.file = pane.file /\ pane'.data = pane.data)))]_vars

Wit_C34_ReResolved == pane.last.called /\ pane.last.via = "marker" /\ pane.writes > 0 /\ pane.file # NoPane /\ pane.calls = MaxPaneCalls /\ pane.last.ret \in pane.last.live

\* ------------------------------------------------------- auto-transfer
\* maybe_auto_transfer and _maybe_auto_extract_old_session, for calls that
\* pass the tests before the key is built.  Time is counted in hours.
\* xfer.seen is _AUTO_TRANSFER_SEEN (None for a key that is not in it),
\* xfer.started is history: when the latest extraction of a key was decided.
XfThreads == {"x1", "x2"}
XfKeys == {"k1", "k2"}
XfIdle == [pc |-> "idle", key |-> "k1", now |-> 0]

XferFrame == UNCHANGED <<earlyVars, bindVars, lockVars, pjVars, mailVars, singleton, pane, ask, poller, daemon>>

\* lines 71-72 (44-45): the key is built and the clock is read
XfEnter(t) ==
  /\ xfer.th[t].pc = "idle"
  /\ \E key \in XfKeys : xfer' = [xfer EXCEPT !.th[t] = [pc |-> "lock", key |-> key, now |-> xfer.now]]
  /\ XferFrame

\* lines 76-78 (50-52): keys older than an hour are dropped
Pruned(seen, at) == [k \in XfKeys |-> IF seen[k] # None /\ at - seen[k] > TtlHours THEN None ELSE seen[k]]

\* lines 73-79 (46-53): inside the lock
XfLocked(t) ==
  /\ xfer.th[t].pc = "lock"
  /\ LET key == xfer.th[t].key
         read == xfer.th[t].now
     IN IF xfer.seen[key] # None
        THEN xfer' = [xfer EXCEPT !.th[t].pc = "idle"]
        ELSE xfer' = [xfer EXCEPT !.seen = [Pruned(xfer.seen, read) EXCEPT ![key] = read],
                                  !.started[key] = xfer.now,
                                  !.th[t].pc = "spawn"]
  /\ XferFrame

\* line 115 (81): the extraction thread is started
XfSpawn(t) ==
  /\ xfer.th[t].pc = "spawn"
  /\ xfer' = [xfer EXCEPT !.th[t].pc = "idle", !.threads = @ + 1]
  /\ XferFrame

XfTick ==
  /\ xfer.now < MaxXferNow
  /\ xfer' = [xfer EXCEPT !.now = @ + 1]
  /\ XferFrame

XferInit ==
  /\ InitCore({"t1"}, MaxEvents)
  /\ CodecIdle /\ MkIdle /\ OcIdle /\ RegIdle /\ BindOff /\ LockOff /\ PjOff /\ MailOff
  /\ xfer = [seen |-> [k \in XfKeys |-> None], started |-> [k \in XfKeys |-> None], now |-> 0, threads |-> 0, th |-> [t \in XfThreads |-> XfIdle]]
  /\ singleton = Unused /\ pane = Unused /\ ask = Unused /\ poller = Unused /\ daemon = Unused

XferNext ==
  \/ \E t \in XfThreads : XfEnter(t)
  \/ \E t \in XfThreads : XfLocked(t)
  \/ \E t \in XfThreads : XfSpawn(t)
  \/ XfTick

XferSpec == XferInit /\ [][XferNext]_vars

\* C36: a call starts an extraction for its key exactly when no extraction
\* for that key was started during the hour before it (stated for the calls
\* that take the lock in the hour in which they read the clock).
Cex_C36_StartsIffNoneInLastHour == [][\A t \in XfThreads : (xfer.th[t].pc = "lock" /\ xfer'.th[t].pc # "lock" /\ xfer.th[t].now = xfer.now) => (xfer'.th[t].pc = "spawn" <=> (xfer.started[xfer.th[t].key] = None \/ xfer.now - xfer.started[xfer.th[t].key] > TtlHours))]_vars

\* ---------------------------------------------------------- mail: ask
\* MailDaemon._default_message_handler and AskHandler.handle_email for the
\* emails the poller hands over, one at a time.  ask.files is the pending
\* directory, ask.submitted the invocations of the ask command (ctx: whether
\* the context file of the request existed at that moment).
Addrs == {"owner@x", "Owner@X", "stranger@y"}
AllowedLists == {{}, {"owner@x"}}
FromAddrs == [display : BOOLEAN, addr : Addrs]
NoMail == [from |-> [display |-> FALSE, addr |-> "owner@x"], empty |-> FALSE]

AskFrame == UNCHANGED <<earlyVars, bindVars, lockVars, pjVars, mailVars, singleton, pane, xfer, poller, daemon>>

\* str.lower() on the addresses of the model
LowerOf(a) == IF a = "Owner@X" THEN "owner@x" ELSE a

\* router.py 87-104; the address is taken out of "Name <email>"
IsSenderAllowed(allowed, from) == IF allowed = {} THEN TRUE ELSE LowerOf(from.addr) \in {LowerOf(a) : a \in allowed}

\* poller.py 306: the next email is handed to on_message
AskReceive ==
  /\ ask.pc = "idle"
  /\ ask.handled < MaxEmails
  /\ \E from \in FromAddrs, empty \in BOOLEAN : ask' = [ask EXCEPT !.msg = [from |-> from, empty |-> empty], !.pc = "handler", !.handled = @ + 1]
  /\ AskFrame

\* daemon.py 147-172
AskDispatch ==
  /\ ask.pc = "handler"
  /\ ask' = IF ask.ask_handler THEN [ask EXCEPT !.pc = "parse"]
            ELSE IF ~IsSenderAllowed(ask.allowed, ask.msg.from) THEN [ask EXCEPT !.pc = "idle", !.result = "rejected"]
            ELSE [ask EXCEPT !.pc = "idle", !.result = "nohandler"]
  /\ AskFrame

\* ask_handler.py 162-188: the body is cleaned, the request id is generated
AskParse ==
  /\ ask.pc = "parse"
  /\ ask' = IF ask.msg.empty THEN [ask EXCEPT !.pc = "idle", !.result = "empty"]
            ELSE [ask EXCEPT !.pc = "save", !.rid = @ + 1]
  /\ AskFrame

\* ask_handler.py 191-192 with _save_email_context (71-102); a failure
\* to write is answered with a warning only
AskSave ==
  /\ ask.pc = "save"
  /\ \E saved \in BOOLEAN : ask' = [ask EXCEPT !.files = IF saved THEN @ \cup {ask.rid} ELSE @, !.pc = "run"]
  /\ AskFrame

\* ask_handler.py 195-252: the ask command is looked up and run
AskRun ==
  /\ ask.pc = "run"
  /\ \E found \in BOOLEAN, outcome \in {"ok", "failed", "timeout"} :
       ask' = IF ~found THEN [ask EXCEPT !.pc = "idle", !.result = "noask"]
              ELSE [ask EXCEPT !.submitted = @ \cup {[rid |-> ask.rid, from |-> ask.msg.from, ctx |-> ask.rid \in ask.files]}, !.pc = "idle", !.result = outcome]
  /\ AskFrame

\* ask_handler.py 278-293: the completion hook removes the context file
\* after the reply was delivered
AskDeliver ==
  /\ \E s \in ask.submitted : s.rid \in ask.files /\ ask' = [ask EXCEPT !.files = @ \ {s.rid}]
  /\ AskFrame

AskInit ==
  /\ InitCore({"t1"}, MaxEvents)
  /\ CodecIdle /\ MkIdle /\ OcIdle /\ RegIdle /\ BindOff /\ LockOff /\ PjOff /\ MailOff
  /\ \E allowed \in AllowedLists, handler \in BOOLEAN : ask = [allowed |-> allowed, ask_handler |-> handler, msg |-> NoMail, pc |-> "idle", rid |-> 0, files |-> {}, submitted |-> {}, handled |-> 0, result |-> "none"]
  /\ singleton = Unused /\ pane = Unused /\ xfer = Unused /\ poller = Unused /\ daemon = Unused

AskNext ==
  \/ AskReceive
  \/ AskDispatch
  \/ AskParse
  \/ AskSave
  \/ AskRun
  \/ AskDeliver

AskSpec == AskInit /\ [][AskNext]_vars

\* C37: whenever the ask command is invoked for an email, the context file
\* of its request id is in the pending directory.
Cex_C37_ContextBeforeSubmission == [][(ask.pc = "run" /\ ask'.submitted # ask.submitted) => ask.rid \in ask.files]_vars

\* C38: with a non-empty allowed-senders list, no email of a sender outside
\* the list is submitted to a provider.
Cex_C38_OnlyAllowedSubmitted == ask.allowed # {} => \A s \in ask.submitted : IsSenderAllowed(ask.allowed, s.from)

\* ------------------------------------------------------- mail: poller
\* ImapPollerDaemon._poll_loop with poll_once, _process_messages and
\* mark_as_read.  poller.seen is the \Seen flag of each message on the
\* server; poller.ok (a handling returned true) and poller.again (hand-overs
\* after that) are history.
PlMsgs == 1..MaxEmails

PollerFrame == UNCHANGED <<earlyVars, bindVars, lockVars, pjVars, mailVars, singleton, pane, xfer, ask, daemon>>

\* poller.py 195-199: the search for UNSEEN, in the order of the mailbox
Unseen(seen) == SelectSeq([i \in PlMsgs |-> i], LAMBDA m : ~seen[m])

\* poller.py 175-212.  The messages are fetched with the data item RFC822
\* (line 232) from a folder selected read-write (line 191); a server sets
\* \Seen on such a fetch (fetch_seen), or leaves the flag alone.
PlPoll ==
  /\ poller.pc = "poll"
  /\ poller.polls < MaxPolls
  /\ \E success \in BOOLEAN :
       poller' = IF success
                 THEN [poller EXCEPT !.batch = Unseen(poller.seen),
                                     !.seen = [m \in PlMsgs |-> IF poller.fetch_seen THEN TRUE ELSE @[m]],
                                     !.polls = @ + 1, !.pc = "handle"]
                 ELSE [poller EXCEPT !.batch = <<>>, !.polls = @ + 1, !.pc = "handle"]
  /\ PollerFrame

\* poller.py 304-312: one message is handed to on_message
PlHandle ==
  /\ poller.pc = "handle"
  /\ poller.batch # <<>>
  /\ LET m == Head(poller.batch)
     IN \E outcome \in {"true", "false", "raise"} :
          poller' = [poller EXCEPT !.again[m] = IF poller.ok[m] THEN @ + 1 ELSE @,
                                   !.ok[m] = @ \/ outcome = "true",
                                   !.pc = IF outcome = "true" THEN "mark" ELSE "handle",
                                   !.batch = IF outcome = "true" THEN @ ELSE Tail(@)]
  /\ PollerFrame

\* poller.py 308-309 with mark_as_read (214-225)
MarkedBy(configured, stored) == configured /\ stored

PlMark ==
  /\ poller.pc = "mark"
  /\ LET m == Head(poller.batch)
     IN \E stored \in BOOLEAN :
          poller' = [poller EXCEPT !.seen[m] = @ \/ MarkedBy(poller.mark_as_read, stored),
                                   !.batch = Tail(@), !.pc = "handle"]
  /\ PollerFrame

\* poller.py 331-363: the loop waits (IDLE or interval) and polls again
PlWait ==
  /\ poller.pc = "handle"
  /\ poller.batch = <<>>
  /\ poller' = [poller EXCEPT !.pc = "poll"]
  /\ PollerFrame

PollerInit ==
  /\ InitCore({"t1"}, MaxEvents)
  /\ CodecIdle /\ MkIdle /\ OcIdle /\ RegIdle /\ BindOff /\ LockOff /\ PjOff /\ MailOff
  /\ \E configured \in BOOLEAN, fetch_seen \in BOOLEAN : poller = [mark_as_read |-> configured, fetch_seen |-> fetch_seen, seen |-> [m \in PlMsgs |-> FALSE], ok |-> [m \in PlMsgs |-> FALSE], again |-> [m \in PlMsgs |-> 0], batch |-> <<>>, polls |-> 0, pc |-> "poll"]
  /\ singleton = Unused /\ pane = Unused /\ xfer = Unused /\ ask = Unused /\ daemon = Unused

PollerNext ==
  \/ PlPoll
  \/ PlHandle
  \/ PlMark
  \/ PlWait

PollerSpec == PollerInit /\ [][PollerNext]_vars

\* C39: a message is marked read only after the handler returned true for
\* it, and a message whose handling succeeded is not handed to the handler
\* again.
Cex_C39_HandledOnceAfterSuccess == \A m \in PlMsgs : (poller.seen[m] => poller.ok[m]) /\ poller.again[m] = 0

\* ------------------------------------------------------- mail: daemon
\* MailDaemon.start and stop in processes that share the configuration
\* directory.  daemon.state and daemon.pidfile hold the pid written to
\* maild.json and maild.pid (None: no file), daemon.alive the processes
\* that exist, daemon.polling those whose poller was started.
DmProcs == 1..MaxDaemons

DaemonFrame == UNCHANGED <<earlyVars, bindVars, lockVars, pjVars, mailVars, singleton, pane, xfer, ask, poller>>

DmGoto(p, to) == [daemon.pc EXCEPT ![p] = to]

\* daemon.py 108-121
IsDaemonRunning(written, alive) == written # None /\ written \in alive

\* daemon.py 178-180 with is_daemon_running: a state file of a process
\* that is gone is removed together with the pid file (lines 96-103)
DmCheck(p) ==
  /\ daemon.pc[p] = "start"
  /\ daemon' = IF IsDaemonRunning(daemon.state, daemon.alive)
               THEN [daemon EXCEPT !.pc = DmGoto(p, "exited"), !.alive = @ \ {p}]
               ELSE [daemon EXCEPT !.state = None, !.pidfile = None, !.pc = DmGoto(p, "write")]
  /\ DaemonFrame

\* daemon.py 183-195: the state file and the pid file are written
DmWrite(p) ==
  /\ daemon.pc[p] = "write"
  /\ daemon' = [daemon EXCEPT !.state = p, !.pidfile = p, !.pc = DmGoto(p, "poll")]
  /\ DaemonFrame

\* daemon.py 203-211: the ask handler is installed and the poller started
DmStartPoller(p) ==
  /\ daemon.pc[p] = "poll"
  /\ daemon' = [daemon EXCEPT !.polling = @ \cup {p}, !.pc = DmGoto(p, "run")]
  /\ DaemonFrame

\* daemon.py 216-235: the main loop ends and stop() removes the state and
\* pid files, whoever wrote them; a killed process removes nothing
DmStop(p) ==
  /\ daemon.pc[p] = "run"
  /\ \E stopped \in BOOLEAN :
       daemon' = [daemon EXCEPT !.polling = @ \ {p}, !.alive = @ \ {p}, !.pc = DmGoto(p, "exited"),
                                !.state = IF stopped THEN None ELSE @,
                                !.pidfile = IF stopped THEN None ELSE @]
  /\ DaemonFrame

DaemonInit ==
  /\ InitCore({"t1"}, MaxEvents)
  /\ CodecIdle /\ MkIdle /\ OcIdle /\ RegIdle /\ BindOff /\ LockOff /\ PjOff /\ MailOff
  /\ daemon = [state |-> None, pidfile |-> None, alive |-> DmProcs, polling |-> {}, pc |-> [p \in DmProcs |-> "start"]]
  /\ singleton = Unused /\ pane = Unused /\ xfer = Unused /\ ask = Unused /\ poller = Unused

DaemonNext ==
  \/ \E p \in DmProcs : DmCheck(p)
  \/ \E p \in DmProcs : DmWrite(p)
  \/ \E p \in DmProcs : DmStartPoller(p)
  \/ \E p \in DmProcs : DmStop(p)

DaemonSpec == DaemonInit /\ [][DaemonNext]_vars

\* C40: at most one mail daemon has written the daemon state and polls at
\* any time.
Cex_C40_OneDaemon == Cardinality({p \in DmProcs : daemon.pc[p] \in {"poll", "run"}}) <= 1
====
